---------------------------- MODULE Spec2Model ----------------------------
(***************************************************************************)
(* A model of the ML service of PHARMA-x-MISIS/backend (src/ml/server.py): *)
(* the token normaliser, the classifier artifact store and predict_labels, *)
(* the TTL cache over the paginated catalog API, and the recommendation    *)
(* endpoints; of the chat proxy (src/tech_support/main.py); and of the     *)
(* community routes of the API (src/api/routes/community.py).              *)
(*                                                                         *)
(* Strings are sequences of code points; a code point is a one-element     *)
(* TLA+ string ("c", "+", " ") or a named one ("cy_yo" is U+0451,          *)
(* "cy_ie" U+0435, "cy_YO" U+0401, "cy_IE" U+0415, "cy_es" U+0441,         *)
(* "cy_i" U+0438, "U0308" the combining diaeresis).                        *)
(***************************************************************************)
EXTENDS Integers, Sequences, FiniteSets, TLC

VARIABLES
    clock,      \* time.time(), in whole ticks
    cache,      \* _cache_comm / _cache_posts: collection -> [ts, items]
    pc,         \* request -> position in predict_communities / predict_posts
    coll,       \* request -> the collection of the endpoint it runs
    now,        \* request -> the local `now` of _get_communities / _get_posts
    skip,       \* request -> the local `skip` of _get_all
    acc,        \* request -> the local `items` of _get_all
    req,        \* request -> the RecoRequest body [skills, limit]
    calls,      \* history: one record per request, in start order
    catalog,    \* collection -> items the upstream holds, where it is fixed
    PIPE,       \* global PIPE
    LABELS,     \* global LABELS
    THRESHOLDS, \* global THRESHOLDS
    files,      \* the artifact directory
    tpc,        \* thread -> position in predict_labels / load_artifacts
    tloc,       \* thread -> locals of the running predict_labels call
    loads,      \* history: load_artifacts invocations, completed loads
    _token_value, \* chat proxy: global _token_value
    _token_exp, \* chat proxy: global _token_exp
    ctime,      \* chat proxy: time.time(), in whole minutes
    creds,      \* chat proxy: GIGACHAT_CLIENT_ID and _SECRET are set
    cpc,        \* chat call -> position in _call_gigachat / _fetch_token
    cloc,       \* chat call -> locals and history of the call
    communities, \* table communities: id -> owner_id
    user_communities, \* table user_communities: rows <<user_id, community_id>>
    community_moderators, \* table community_moderators: the same
    dpc,        \* session -> the statement its request is at
    dloc,       \* session -> the route, path and body of its request
    started     \* history: number of community requests received

cacheVars == <<clock, cache, pc, coll, now, skip, acc, req, calls, catalog>>

artVars == <<PIPE, LABELS, THRESHOLDS, files, tpc, tloc, loads>>

proxyVars == <<_token_value, _token_exp, ctime, creds, cpc, cloc>>

dbVars == <<communities, user_communities, community_moderators, dpc, dloc,
           started>>

vars == <<clock, cache, pc, coll, now, skip, acc, req, calls, catalog,
          PIPE, LABELS, THRESHOLDS, files, tpc, tloc, loads,
          _token_value, _token_exp, ctime, creds, cpc, cloc,
          communities, user_communities, community_moderators, dpc, dloc,
          started>>

(***************************************************************************)
(* Sequences                                                               *)
(***************************************************************************)
Range(s) == {s[i] : i \in 1..Len(s)}

Max(a, b) == IF a >= b THEN a ELSE b

Min(a, b) == IF a <= b THEN a ELSE b

\* s[:k] of Python, for k >= 0
Prefix(s, k) == SubSeq(s, 1, Min(k, Len(s)))

\* the 1-based position of the first x in s, 0 when absent
RECURSIVE IndexOf(_, _)
IndexOf(s, x) ==
    IF s = <<>> THEN 0
    ELSE IF s[1] = x THEN 1
    ELSE LET r == IndexOf(Tail(s), x) IN IF r = 0 THEN 0 ELSE r + 1

(***************************************************************************)
(* Token normaliser                                                        *)
(***************************************************************************)
UpperLetters == <<"A","B","C","D","E","F","G","H","I","J","K","L","M",
                  "N","O","P","Q","R","S","T","U","V","W","X","Y","Z",
                  "cy_YO","cy_IE">>

LowerLetters == <<"a","b","c","d","e","f","g","h","i","j","k","l","m",
                  "n","o","p","q","r","s","t","u","v","w","x","y","z",
                  "cy_yo","cy_ie">>

\* str.lower() on one code point
LowerChar(ch) ==
    LET i == IndexOf(UpperLetters, ch) IN IF i = 0 THEN ch ELSE LowerLetters[i]

Lower(s) == [i \in 1..Len(s) |-> LowerChar(s[i])]

IsSpace(ch) == ch \in {" ", "\t", "\n"}

RECURSIVE LStrip(_)
LStrip(s) == IF s # <<>> /\ IsSpace(s[1]) THEN LStrip(Tail(s)) ELSE s

RECURSIVE RStrip(_)
RStrip(s) ==
    IF s # <<>> /\ IsSpace(s[Len(s)]) THEN RStrip(SubSeq(s, 1, Len(s) - 1)) ELSE s

\* str.strip()
Strip(s) == RStrip(LStrip(s))

\* the primary composite of a starter and a combining mark, "" when none
Compose(base, mark) ==
    IF mark # "U0308" THEN ""
    ELSE IF base = "cy_ie" THEN "cy_yo"
    ELSE IF base = "cy_IE" THEN "cy_YO"
    ELSE ""

\* unicodedata.normalize("NFC", s): every code point of the alphabet is its own
\* canonical decomposition except cy_yo and cy_YO, which NFC recomposes
RECURSIVE NFC(_)
NFC(s) ==
    IF Len(s) < 2 THEN s
    ELSE IF Compose(s[1], s[2]) # ""
         THEN NFC(<<Compose(s[1], s[2])>> \o SubSeq(s, 3, Len(s)))
         ELSE <<s[1]>> \o NFC(Tail(s))

\* s.replace(U+0451, U+0435)
ReplaceYo(s) == [i \in 1..Len(s) |-> IF s[i] = "cy_yo" THEN "cy_ie" ELSE s[i]]

\* a value that is not a str
NotAString == <<"<not a str>">>

_normalize_text(s) ==
    IF s = NotAString THEN <<>> ELSE Strip(ReplaceYo(NFC(s)))

T_cpp      == <<"c","+","+">>
T_c        == <<"c">>
T_js       == <<"j","a","v","a","s","c","r","i","p","t">>
T_arduino  == <<"a","r","d","u","i","n","o">>
T_python   == <<"p","y","t","h","o","n">>
T_cf       == <<"c","o","d","e","f","o","r","c","e","s">>
\* "olimpiadnaya informatika", in Cyrillic
T_olymp    == <<"cy_o","cy_el","cy_i","cy_em","cy_pe","cy_i","cy_a","cy_de","cy_en",
                "cy_a","cy_ya"," ","cy_i","cy_en","cy_ef","cy_o","cy_er","cy_em",
                "cy_a","cy_te","cy_i","cy_ka","cy_a">>

\* mutant: no spelling is folded
SynonymsNone(s) == s

synonyms(s) ==
    IF s = <<"c","p","p">> THEN T_cpp
    ELSE IF s = <<"c"," ","p","l","u","s"," ","p","l","u","s">> THEN T_cpp
    ELSE IF s = <<"c","-","cy_pe","cy_el","cy_yu","cy_es","-","cy_pe","cy_el","cy_yu","cy_es">>
         THEN T_cpp
    ELSE IF s = <<"cy_es","cy_i">> THEN T_c
    ELSE IF s = <<"j","s">> THEN T_js
    ELSE s

_norm_token(t) ==
    IF t = NotAString THEN <<>> ELSE synonyms(ReplaceYo(Lower(Strip(NFC(t)))))

RECURSIVE NormListFrom(_, _)
NormListFrom(xs, out) ==
    IF xs = <<>> THEN out
    ELSE LET n == _norm_token(xs[1]) IN
         NormListFrom(Tail(xs),
                      IF n # <<>> /\ n \notin Range(out) THEN Append(out, n) ELSE out)

_norm_list(xs) == NormListFrom(xs, <<>>)

(***************************************************************************)
(* Recommendation: vocabulary, one-hot rows, cosine scores, ranking        *)
(*                                                                         *)
(* A catalog item is [id, skills, mc, lc]: mc and lc are the JSON fields   *)
(* member_count and like_count, each [k, v] with k one of "absent", "null",*)
(* "num" (the number v) and "str" (a string float() rejects).  A vocabulary*)
(* is the sequence of its tokens, token j having index j - 1.              *)
(***************************************************************************)
Absent == [k |-> "absent", v |-> 0]

Null == [k |-> "null", v |-> 0]

NonNumeric == [k |-> "str", v |-> 0]

Num(n) == [k |-> "num", v |-> n]

\* mutant: every token gets a new index, present or not
VocabFromAll(toks, vocab) == vocab \o toks

RECURSIVE VocabFrom(_, _)
VocabFrom(toks, vocab) ==
    IF toks = <<>> THEN vocab
    ELSE VocabFrom(Tail(toks),
                   IF toks[1] \notin Range(vocab) THEN Append(vocab, toks[1]) ELSE vocab)

RECURSIVE BuildVocabFrom(_, _)
BuildVocabFrom(objects, vocab) ==
    IF objects = <<>> THEN vocab
    ELSE BuildVocabFrom(Tail(objects), VocabFrom(_norm_list(objects[1].skills), vocab))

_build_vocab(objects) == BuildVocabFrom(objects, <<>>)

\* v with v[j] = 1.0 when tok is token j of vocab (vocab.get(tok) is not None)
SetTok(v, vocab, tok) ==
    LET j == IndexOf(vocab, tok) IN IF j = 0 THEN v ELSE [v EXCEPT ![j] = 1]

\* mutant: no token forces another dimension
NoItemHints == {}

\* tokens that force the "c++" dimension in an item row
ItemHints == {T_arduino}

\* mutant: the query has the hints of an item row only
QueryHintsOfItems == {T_arduino}

\* tokens that force the "c++" dimension in the query vector
QueryHints == {T_arduino, T_olymp, T_cf}

\* the loop body shared by _one_hot_matrix and _skills_to_vec
RECURSIVE FillVec(_, _, _, _)
FillVec(toks, vocab, hints, v) ==
    IF toks = <<>> THEN v
    ELSE LET w == SetTok(v, vocab, toks[1]) IN
         FillVec(Tail(toks), vocab, hints,
                 IF toks[1] \in hints THEN SetTok(w, vocab, T_cpp) ELSE w)

\* np.zeros((n,))
RECURSIVE Zeros(_)
Zeros(n) == IF n = 0 THEN <<>> ELSE Append(Zeros(n - 1), 0)

\* row i of M
ItemRow(obj, vocab) == FillVec(_norm_list(obj.skills), vocab, ItemHints, Zeros(Len(vocab)))

\* float(obj.get("member_count", obj.get("like_count", 0)) or 0):
\* [ok |-> TRUE, v] or [ok |-> FALSE] when float() raises ValueError
Popularity(obj) ==
    LET x == IF obj.mc.k # "absent" THEN obj.mc
             ELSE IF obj.lc.k # "absent" THEN obj.lc ELSE Num(0)
    IN  IF x.k = "str" THEN [ok |-> FALSE, v |-> 0]
        ELSE IF x.k = "null" THEN [ok |-> TRUE, v |-> 0]
        ELSE [ok |-> TRUE, v |-> x.v]

\* mutant: the popularities are converted before the empty case is answered
OneHotPopularityFirst(objects, vocab) ==
    IF \E i \in 1..Len(objects) : ~Popularity(objects[i]).ok
    THEN [raised |-> TRUE, M |-> <<>>, ids |-> <<>>, pop |-> <<>>]
    ELSE [raised |-> FALSE,
          M   |-> IF Len(vocab) = 0 THEN <<>>
                  ELSE [i \in 1..Len(objects) |-> ItemRow(objects[i], vocab)],
          ids |-> IF Len(vocab) = 0 THEN <<>> ELSE [i \in 1..Len(objects) |-> objects[i].id],
          pop |-> IF Len(vocab) = 0 THEN <<>>
                  ELSE [i \in 1..Len(objects) |-> Popularity(objects[i]).v]]

\* [raised, M, ids, pop]
_one_hot_matrix(objects, vocab) ==
    IF objects = <<>> \/ Len(vocab) = 0
    THEN [raised |-> FALSE, M |-> <<>>, ids |-> <<>>, pop |-> <<>>]
    ELSE IF \E i \in 1..Len(objects) : ~Popularity(objects[i]).ok
    THEN [raised |-> TRUE, M |-> <<>>, ids |-> <<>>, pop |-> <<>>]
    ELSE [raised |-> FALSE,
          M   |-> [i \in 1..Len(objects) |-> ItemRow(objects[i], vocab)],
          ids |-> [i \in 1..Len(objects) |-> objects[i].id],
          pop |-> [i \in 1..Len(objects) |-> Popularity(objects[i]).v]]

\* mutant: the query vector has every dimension set
SkillsToVecAllSet(skills, vocab) == [j \in 1..Len(vocab) |-> 1]

_skills_to_vec(skills, vocab) ==
    FillVec(_norm_list(skills), vocab, QueryHints, Zeros(Len(vocab)))

RECURSIVE Dot(_, _)
Dot(a, b) == IF a = <<>> THEN 0 ELSE a[1] * b[1] + Dot(Tail(a), Tail(b))

\* A float32 number that is not negative is [m, e], standing for m * 2^e: m = 0
\* for 0.0, otherwise 2^23 <= m < 2^24 (24 significant bits).  Every operation
\* rounds the exact result to the nearest such number, ties to the even m.
ZeroScore == [m |-> 0, e |-> 0]

One32 == [m |-> 2^23, e |-> -23]

\* np.sqrt of the float32 numbers 1.0 .. 8.0: the sums of squares of 0/1
\* vectors of up to 8 dimensions
SqrtTable ==
    <<[m |-> 8388608, e |-> -23], [m |-> 11863283, e |-> -23],
      [m |-> 14529495, e |-> -23], [m |-> 8388608, e |-> -22],
      [m |-> 9378749, e |-> -22], [m |-> 10273905, e |-> -22],
      [m |-> 11097085, e |-> -22], [m |-> 11863283, e |-> -22]>>

\* np.linalg.norm of a float32 0/1 vector with n entries set
Norm32(n) == IF n = 0 THEN ZeroScore ELSE SqrtTable[n]

\* m * 2^e with m of up to 25 bits and rem / 2^24 of a unit in the last place
\* left over, rounded to 24 bits
Round32(m, rem, e) ==
    LET up == rem > 2^23 \/ (rem = 2^23 /\ m % 2 = 1)
        mr == IF up THEN m + 1 ELSE m
    IN  IF mr = 2^24 THEN [m |-> 2^23, e |-> e + 1] ELSE [m |-> mr, e |-> e]

\* a * b in float32; the 48-bit product is formed from 12-bit halves
Mul32(a, b) ==
    IF a.m = 0 \/ b.m = 0 THEN ZeroScore
    ELSE LET a1    == a.m \div 4096
             a0    == a.m % 4096
             b1    == b.m \div 4096
             b0    == b.m % 4096
             cross == a1 * b0 + a0 * b1
             low   == (cross % 4096) * 4096 + a0 * b0
             lo    == low % 2^24
             hi    == a1 * b1 + cross \div 4096 + low \div 2^24
         IN  IF hi >= 2^23
             THEN Round32(hi, lo, a.e + b.e + 24)
             ELSE Round32(2 * hi + lo \div 2^23, 2 * (lo % 2^23), a.e + b.e + 23)

\* the first 24 significant bits q of r / m (r < m), the remainder and the
\* number of bits produced
RECURSIVE DivBits(_, _, _, _)
DivBits(r, m, q, k) ==
    IF q >= 2^23 THEN [q |-> q, r |-> r, k |-> k]
    ELSE IF 2 * r >= m THEN DivBits(2 * r - m, m, 2 * q + 1, k + 1)
    ELSE DivBits(2 * r, m, 2 * q, k + 1)

\* d / b in float32, for an integer 0 <= d < 2^23 and b > 0
Div32(d, b) ==
    IF d = 0 THEN ZeroScore
    ELSE LET x  == DivBits(d, b.m, 0, 0)
             up == 2 * x.r > b.m \/ (2 * x.r = b.m /\ x.q % 2 = 1)
             q  == IF up THEN x.q + 1 ELSE x.q
         IN  IF q = 2^24 THEN [m |-> 2^23, e |-> 1 - x.k - b.e]
             ELSE [m |-> q, e |-> 0 - x.k - b.e]

_cosine_scores(user_vec, M) ==
    LET un == Norm32(Dot(user_vec, user_vec)) IN
    IF M = <<>> \/ M[1] = <<>> THEN <<>>
    ELSE IF un.m = 0 THEN [i \in 1..Len(M) |-> ZeroScore]
    ELSE [i \in 1..Len(M) |->
            LET norm == Mul32(Norm32(Dot(M[i], M[i])), un)
            IN  IF norm.m = 0 THEN ZeroScore
                ELSE Div32(Dot(M[i], user_vec), norm)]

\* a > b and a = b for scores
ScoreGt(a, b) ==
    a.m > 0 /\ (b.m = 0 \/ a.e > b.e \/ (a.e = b.e /\ a.m > b.m))

ScoreEq(a, b) == a = b

\* mutant: the popularity key is ignored
KeyLessScoreOnly(i, j, scores, pop) == ScoreGt(scores[i], scores[j])

\* i sorts strictly before j under the keys (-scores, -pop)
KeyLess(i, j, scores, pop) ==
    \/ ScoreGt(scores[i], scores[j])
    \/ ScoreEq(scores[i], scores[j]) /\ pop[i] > pop[j]

\* x put into the sorted index list, behind every entry it does not precede
RECURSIVE InsertIdx(_, _, _, _)
InsertIdx(sorted, x, scores, pop) ==
    IF sorted = <<>> THEN <<x>>
    ELSE IF KeyLess(x, sorted[1], scores, pop) THEN <<x>> \o sorted
    ELSE <<sorted[1]>> \o InsertIdx(Tail(sorted), x, scores, pop)

RECURSIVE SortFrom(_, _, _, _)
SortFrom(i, sorted, scores, pop) ==
    IF i > Len(scores) THEN sorted
    ELSE SortFrom(i + 1, InsertIdx(sorted, i, scores, pop), scores, pop)

\* np.lexsort((-pop, -scores)): a stable sort, the last key the primary one
lexsort(scores, pop) == SortFrom(1, <<>>, scores, pop)

NoLimit == [k |-> "none", v |-> 0]

Limit(n) == [k |-> "int", v |-> n]

DEFAULT_LIMIT == 50

\* max(1, int(req.limit or 50))
TopK(limit) ==
    Max(1, IF limit.k = "none" \/ limit.v = 0 THEN DEFAULT_LIMIT ELSE limit.v)

\* order[:k] of lines 287-289 for the snapshot objs: the positions of the
\* returned items in the snapshot
RecoOrder(objs, r) ==
    LET vocab == _build_vocab(objs)
        mat   == _one_hot_matrix(objs, vocab)
    IN  Prefix(lexsort(_cosine_scores(_skills_to_vec(r.skills, vocab), mat.M), mat.pop),
               TopK(r.limit))

\* the body of predict_communities / predict_posts after the get call, for the
\* snapshot objs: the answer [status, body]
Recommend(objs, r) ==
    LET vocab  == _build_vocab(objs)
        mat    == _one_hot_matrix(objs, vocab)
        u      == _skills_to_vec(r.skills, vocab)
        scores == _cosine_scores(u, mat.M)
        order  == lexsort(scores, mat.pop)
        idx    == Prefix(order, TopK(r.limit))
    IN  IF mat.raised THEN [status |-> 500, body |-> <<>>]
        ELSE IF scores = <<>> THEN [status |-> 200, body |-> <<>>]
        ELSE [status |-> 200,
              body |-> [n \in 1..Len(idx) |->
                          [id |-> mat.ids[idx[n]], score |-> scores[idx[n]]]]]

(***************************************************************************)
(* Catalog cache and paginated fetch                                       *)
(*                                                                         *)
(* The two endpoints are coroutines of one event loop: a request runs      *)
(* without interruption from one await to the next.  The only awaits of a  *)
(* request are those of _get_all, one per page, so a step of a request is  *)
(* the code from the arrival of a page to the next page request (or to the *)
(* handler's answer).  Requests are numbered in the order they start.      *)
(***************************************************************************)
Collections == {"communities", "posts"}

CACHE_TTL_SEC == 1

MP_API_PAGE_LIMIT == 2

MaxCalls == 2

MaxTicks == 2

MaxItems == 2

Requests == 1..MaxCalls

\* time.time() of a running server exceeds the TTL: the slots, created with
\* ts 0.0, start expired
StartTime == CACHE_TTL_SEC + 1

MaxTime == StartTime + MaxTicks

S_Python  == <<"P","y","t","h","o","n">>
S_Cpp     == <<"C","+","+">>
S_cpp     == <<"c","p","p">>
S_Arduino == <<" ","A","r","d","u","i","n","o">>

\* item i of the upstream collection c, as the catalog API serves it
ItemAt(c, i) ==
    LET sk == IF i % 3 = 1 THEN <<S_Python, S_Cpp>>
              ELSE IF i % 3 = 2 THEN <<S_cpp>>
              ELSE <<S_Arduino>>
        n  == IF i % 3 = 1 THEN 10 ELSE IF i % 3 = 2 THEN 5 ELSE 20
    IN  IF c = "communities"
        THEN [id |-> i, skills |-> sk, mc |-> Num(n), lc |-> Absent]
        ELSE [id |-> 100 + i, skills |-> sk, mc |-> Absent,
              lc |-> IF i % 3 = 0 THEN NonNumeric ELSE Num(n)]

\* the JSON array the catalog answers GET c?skip=s&limit=l with when it
\* holds n items
PageOf(c, n, s, l) == [j \in 1..Max(0, Min(l, n - s)) |-> ItemAt(c, s + j)]

\* What a page request can come back with: a 200 with the list, a 200 with
\* JSON that is no list, a 200 whose body is no JSON, another status, or no
\* answer within MP_API_TIMEOUT.
BadStatuses == {404, 503}

Failures == {[kind |-> "status", status |-> st] : st \in BadStatuses}
            \cup {[kind |-> "badjson", status |-> 200],
                  [kind |-> "timeout", status |-> 0]}

\* mutant: the error always carries status 500
RaisedAlways500(f) == 500

\* the exception _get_all raises on a failure: the HTTPException's status
\* code, 0 for asyncio.TimeoutError
RaisedStatus(f) ==
    IF f.kind = "status" THEN f.status ELSE IF f.kind = "badjson" THEN 500 ELSE 0

\* mutant: the slot counts as expired already at now - ts = CACHE_TTL_SEC
StaleAtTTL(t, ts) == t - ts >= CACHE_TTL_SEC

\* now - _cache["ts"] > CACHE_TTL_SEC
Stale(t, ts) == t - ts > CACHE_TTL_SEC

\* mutant: the refresh stores the timestamp and keeps the old list
RefreshedKeepItems(slot, items, t) == [ts |-> t, items |-> slot.items]

\* mutant: the refresh stores the list and keeps the old timestamp
RefreshedKeepTs(slot, items, t) == [ts |-> slot.ts, items |-> items]

\* the slot after  _cache["items"] = await _get_all(...); _cache["ts"] = now
Refreshed(slot, items, t) == [ts |-> t, items |-> items]

\* mutant: the pages received before the failure are stored
AssignedPartial(slot, partial) == [ts |-> slot.ts, items |-> partial]

\* the slot after _get_all has raised: the assignment is never reached
Unassigned(slot, partial) == slot

EmptySlot == [ts |-> 0, items |-> <<>>]

\* mutant: a page replaces the items received so far
ExtendedLastPage(items, page) == page

\* items after items.extend(page)
Extended(items, page) == items \o page

\* no page request of the call has failed
NoFailure == [kind |-> "none", status |-> 0]

NoResp == [status |-> 0, body |-> <<>>]

NoReq == [skills |-> <<>>, limit |-> NoLimit]

\* mutant: an HTTPException passes through the handler with its own status
HandlerPropagates(raised) == IF raised # 0 THEN raised ELSE 500

\* the status the handler answers with when the code under its try raised
\* (raised: the status code of an HTTPException, 0 for any other exception)
HandlerStatus(raised) == 500

\* predict_communities / predict_posts up to the first await: the handler
\* calls _get_communities / _get_posts, which answers from the slot or
\* starts _get_all
Call(p, c, r) ==
    /\ p = Len(calls) + 1
    /\ pc[p] = "idle"
    /\ LET busy  == {q \in Requests : pc[q] = "fetch" /\ coll[q] = c}
           log   == [i \in 1..Len(calls) |->
                       IF i \in busy THEN [calls[i] EXCEPT !.alone = FALSE]
                       ELSE calls[i]]
           entry == [c |-> c, req |-> r, start |-> clock, seen |-> cache[c],
                     alone |-> busy = {}, fetched |-> TRUE, status |-> "pending",
                     raised |-> 0, got |-> <<>>, result |-> <<>>,
                     offsets |-> <<>>, failed |-> NoFailure]
       IN  IF Stale(clock, cache[c].ts)
           THEN /\ pc' = [pc EXCEPT ![p] = "fetch"]
                /\ coll' = [coll EXCEPT ![p] = c]
                /\ req' = [req EXCEPT ![p] = r]
                /\ now' = [now EXCEPT ![p] = clock]
                /\ calls' = Append(log, [entry EXCEPT !.offsets = <<skip[p]>>])
           ELSE /\ pc' = [pc EXCEPT ![p] = "done"]
                /\ calls' = Append(log, [entry EXCEPT
                                           !.fetched = FALSE, !.status = "ok",
                                           !.result = cache[c].items])
                /\ UNCHANGED <<coll, req, now>>
    /\ UNCHANGED <<clock, cache, skip, acc, catalog>>
    /\ UNCHANGED <<artVars, proxyVars, dbVars>>

\* the request's locals once the handler has answered
Return(p) ==
    /\ pc' = [pc EXCEPT ![p] = "done"]
    /\ coll' = [coll EXCEPT ![p] = "communities"]
    /\ req' = [req EXCEPT ![p] = NoReq]
    /\ now' = [now EXCEPT ![p] = 0]
    /\ skip' = [skip EXCEPT ![p] = 0]
    /\ acc' = [acc EXCEPT ![p] = <<>>]

\* _get_all returns items: the slot is replaced and the get call returns the
\* slot's list, which the handler ranks (Response), all before the next await
Finish(p, items) ==
    LET c    == coll[p]
        slot == Refreshed(cache[c], items, now[p])
    IN  /\ cache' = [cache EXCEPT ![c] = slot]
        /\ calls' = [calls EXCEPT ![p] =
                       [@ EXCEPT !.status = "ok", !.got = items, !.result = slot.items]]
        /\ Return(p)

\* mutant: only an empty page ends the fetch
LastPageIfEmpty(page) == Len(page) = 0

\* len(page) < MP_API_PAGE_LIMIT
LastPage(page) == Len(page) < MP_API_PAGE_LIMIT

\* a page request is answered 200 with a JSON list, the catalog holding n items
PageList(p, n) ==
    /\ pc[p] = "fetch"
    /\ LET page == PageOf(coll[p], n, skip[p], MP_API_PAGE_LIMIT)
           items == Extended(acc[p], page)
       IN  IF LastPage(page)
           THEN Finish(p, items)
           ELSE /\ acc' = [acc EXCEPT ![p] = items]
                /\ skip' = [skip EXCEPT ![p] = @ + MP_API_PAGE_LIMIT]
                /\ calls' = [calls EXCEPT ![p].offsets =
                               Append(@, skip[p] + MP_API_PAGE_LIMIT)]
                /\ UNCHANGED <<cache, pc, coll, now, req>>
    /\ UNCHANGED <<clock, catalog>>
    /\ UNCHANGED <<artVars, proxyVars, dbVars>>

\* a page request is answered 200 with JSON that is not a list: break
PageNonList(p) ==
    /\ pc[p] = "fetch"
    /\ Finish(p, acc[p])
    /\ UNCHANGED <<clock, catalog>>
    /\ UNCHANGED <<artVars, proxyVars, dbVars>>

\* a page request fails: _get_all raises, _get_communities / _get_posts let
\* the exception through and the handler's except clause answers
PageFail(p, f) ==
    /\ pc[p] = "fetch"
    /\ cache' = [cache EXCEPT ![coll[p]] = Unassigned(@, acc[p])]
    /\ calls' = [calls EXCEPT ![p] =
                   [@ EXCEPT !.status = "err", !.raised = RaisedStatus(f),
                             !.failed = f]]
    /\ Return(p)
    /\ UNCHANGED <<clock, catalog>>
    /\ UNCHANGED <<artVars, proxyVars, dbVars>>

\* the HTTP answer to request i: the ranking of the list the get call
\* returned, or the except clause's answer
Response(i) ==
    IF calls[i].status = "ok" THEN Recommend(calls[i].result, calls[i].req)
    ELSE IF calls[i].status = "err"
    THEN [status |-> HandlerStatus(calls[i].raised), body |-> <<>>]
    ELSE NoResp

\* time passes
Tick ==
    /\ clock < MaxTime
    /\ clock' = clock + 1
    /\ UNCHANGED <<cache, pc, coll, now, skip, acc, req, calls, catalog>>
    /\ UNCHANGED <<artVars, proxyVars, dbVars>>

\* the requests, none started
ReqIdle ==
    /\ pc = [p \in Requests |-> "idle"]
    /\ coll = [p \in Requests |-> "communities"]
    /\ now = [p \in Requests |-> 0]
    /\ skip = [p \in Requests |-> 0]
    /\ acc = [p \in Requests |-> <<>>]
    /\ req = [p \in Requests |-> NoReq]
    /\ calls = <<>>

\* the requests, none started; the upstream is not held fixed
ReqInit ==
    /\ ReqIdle
    /\ catalog = [c \in Collections |-> 0]

(***************************************************************************)
(* Classifier artifact store and predict_labels                            *)
(*                                                                         *)
(* /predict is a plain (not async) handler: the framework runs each request*)
(* on a worker thread, so predict_labels calls interleave between          *)
(* statements.  A step of a thread is one statement of load_artifacts, or  *)
(* the lines of predict_labels between two reads of the globals.  Calls are*)
(* numbered in the order they start.  Probabilities and thresholds are     *)
(* counted in thousandths.                                                 *)
(***************************************************************************)
MaxPredicts == 2

MaxLabels == 1

Threads == 1..MaxPredicts

None == "None"

\* THRESHOLDS: None, or a one-dimensional array
NoneThr == [k |-> "none", v |-> <<>>]

Arr(v) == [k |-> "array", v |-> v]

DEFAULT_THR == 500

LabelAt(j) == <<"label", j>>

\* the thresholds.npy of the model's directories: one threshold per position
ThrAt(j) == IF j % 3 = 1 THEN 600 ELSE IF j % 3 = 2 THEN 500 ELSE 269

\* The artifact directories: tfidf_logreg_ovr.joblib present and loadable,
\* present and unreadable, or missing; labels.json a list, not JSON, or
\* missing; thresholds.npy an array, unreadable, or absent.
Directories ==
    {[model |-> m, labels |-> l, thr |-> th] :
        m \in {"ok", "corrupt", "missing"},
        l \in {[k |-> "missing", v |-> <<>>], [k |-> "malformed", v |-> <<>>]}
              \cup {[k |-> "list", v |-> [j \in 1..n |-> LabelAt(j)]] : n \in 0..MaxLabels},
        th \in {[k |-> "absent", v |-> <<>>], [k |-> "unreadable", v |-> <<>>]}
               \cup {[k |-> "array", v |-> [j \in 1..n |-> ThrAt(j)]] : n \in 0..MaxLabels + 1}}

\* a directory whose three files load and agree
GoodDirectory ==
    [model |-> "ok",
     labels |-> [k |-> "list", v |-> [j \in 1..MaxLabels |-> LabelAt(j)]],
     thr |-> [k |-> "array", v |-> [j \in 1..MaxLabels |-> ThrAt(j)]]]

\* the number of scores the model gives: one per label it was trained on
NOut(dir) == Max(1, Len(dir.labels.v))

\* the decision scores a text can get, and 1 / (1 + exp(-score))
Scores == {-1, 0, 1}

Sigmoid(x) == IF x < 0 THEN 269 ELSE IF x = 0 THEN 500 ELSE 731

NoneDesc == <<"<None>">>

\* description or ""
DescOrEmpty(d) == IF d = NoneDesc THEN <<>> ELSE d

\* the descriptions a call is given: None (which `or` turns into ""), a value
\* that is not a string, a blank string and a text
Descriptions == {NoneDesc, NotAString, <<" ">>, <<"a", "b">>}

Pending == [k |-> "pending", labels |-> <<>>, exc |-> ""]

Returned(ls) == [k |-> "ok", labels |-> ls, exc |-> ""]

Raised(e) == [k |-> "raise", labels |-> <<>>, exc |-> e]

NoCall == [desc |-> <<>>, text |-> <<>>, loadedAtStart |-> FALSE, loadsInvoked |-> 0,
           loadFailed |-> FALSE, scored |-> FALSE, probs |-> <<>>, usedThr |-> <<>>,
           outcome |-> Pending]

\* PIPE is None or not LABELS
NotLoaded == PIPE = None \/ LABELS = <<>>

\* mutant: the text is never taken for empty
EmptyTextNever(text) == FALSE

\* not text
EmptyText(text) == text = <<>>

\* mutant: a probability equal to its threshold is not selected
WhereGT(probs, thr) ==
    [raised |-> Len(probs) # Len(thr),
     idx |-> {i \in 1..Min(Len(probs), Len(thr)) : probs[i] > thr[i]}]

\* np.where(probs >= thresholds)[0], with numpy's broadcasting of two
\* one-dimensional arrays: [raised, idx]
WhereGE(probs, thr) ==
    LET n == Len(probs)
        m == Len(thr)
    IN  IF n = m
        THEN [raised |-> FALSE, idx |-> {i \in 1..n : probs[i] >= thr[i]}]
        ELSE IF m = 1
        THEN [raised |-> FALSE, idx |-> {i \in 1..n : probs[i] >= thr[1]}]
        ELSE IF n = 1
        THEN [raised |-> FALSE, idx |-> {j \in 1..m : probs[1] >= thr[j]}]
        ELSE [raised |-> TRUE, idx |-> {}]

\* the thresholds of line 140 as an array
ThresholdsOr(thresholds, labels) ==
    IF thresholds.k = "none" THEN [j \in 1..Len(labels) |-> DEFAULT_THR]
    ELSE thresholds.v

\* the sequences that hold every element of the set idx once
RECURSIVE Perms(_)
Perms(idx) ==
    IF idx = {} THEN {<<>>}
    ELSE UNION {{<<i>> \o p : p \in Perms(idx \ {i})} : i \in idx}

\* idx[np.argsort(-probs[idx])]: argsort's default kind is quicksort, which
\* is not stable, so equal probabilities may come out in any order
ArgSorts(probs, idx) ==
    {p \in Perms(idx) : \A n \in 1..Len(p) - 1 : probs[p[n]] >= probs[p[n + 1]]}

\* the orders line 145 can give for the probabilities probs
Orders(probs, thresholds, labels) ==
    LET w == WhereGE(probs, ThresholdsOr(thresholds, labels))
    IN  IF w.raised \/ \E i \in w.idx : i > Len(probs) THEN {<<>>}
        ELSE ArgSorts(probs, w.idx)

\* lines 140-146 of predict_labels for the probabilities probs, argsort
\* giving the order srt: the outcome
Select(probs, thresholds, labels, srt) ==
    LET w == WhereGE(probs, ThresholdsOr(thresholds, labels))
    IN  IF w.raised THEN Raised("ValueError")
        ELSE IF w.idx = {} THEN Returned(<<>>)
        ELSE IF \E i \in w.idx : i > Len(probs) \/ i > Len(labels)
        THEN Raised("IndexError")
        ELSE Returned([n \in 1..Len(srt) |-> labels[srt[n]]])

\* a predict_labels call starts: line 131
Predict(t, d) ==
    /\ tpc[t] = "idle"
    /\ \A u \in Threads : u < t => tpc[u] # "idle"
    /\ tpc' = [tpc EXCEPT ![t] = IF NotLoaded THEN "L101" ELSE "P134"]
    /\ tloc' = [tloc EXCEPT ![t] =
                  [NoCall EXCEPT !.desc = d, !.loadedAtStart = loads.completed > 0,
                                 !.loadsInvoked = IF NotLoaded THEN 1 ELSE 0]]
    /\ loads' = [loads EXCEPT !.invoked = IF NotLoaded THEN @ + 1 ELSE @]
    /\ UNCHANGED <<PIPE, LABELS, THRESHOLDS, files>>
    /\ UNCHANGED <<cacheVars, proxyVars, dbVars>>

\* the call of thread t ends with exception e raised inside load_artifacts
LoadRaises(t, e) ==
    /\ tpc' = [tpc EXCEPT ![t] = "done"]
    /\ tloc' = [tloc EXCEPT ![t] = [@ EXCEPT !.loadFailed = TRUE, !.outcome = Raised(e)]]

\* load_artifacts, lines 96-111: the two required files must exist
LoadCheck(t) ==
    /\ tpc[t] = "L101"
    /\ IF files.model = "missing" \/ files.labels.k = "missing"
       THEN LoadRaises(t, "FileNotFoundError")
       ELSE tpc' = [tpc EXCEPT ![t] = "L113"] /\ UNCHANGED tloc
    /\ UNCHANGED <<PIPE, LABELS, THRESHOLDS, files, loads>>
    /\ UNCHANGED <<cacheVars, proxyVars, dbVars>>

\* line 113: PIPE = joblib.load(model_path)
LoadModel(t) ==
    /\ tpc[t] = "L113"
    /\ IF files.model = "corrupt"
       THEN LoadRaises(t, "UnpicklingError") /\ UNCHANGED PIPE
       ELSE PIPE' = "pipe" /\ tpc' = [tpc EXCEPT ![t] = "L114"] /\ UNCHANGED tloc
    /\ UNCHANGED <<LABELS, THRESHOLDS, files, loads>>
    /\ UNCHANGED <<cacheVars, proxyVars, dbVars>>

\* line 114: LABELS = json.loads(labels_path.read_text(...))
LoadLabels(t) ==
    /\ tpc[t] = "L114"
    /\ IF files.labels.k = "malformed"
       THEN LoadRaises(t, "JSONDecodeError") /\ UNCHANGED LABELS
       ELSE LABELS' = files.labels.v /\ tpc' = [tpc EXCEPT ![t] = "L116"]
            /\ UNCHANGED tloc
    /\ UNCHANGED <<PIPE, THRESHOLDS, files, loads>>
    /\ UNCHANGED <<cacheVars, proxyVars, dbVars>>

\* the load of thread t has run to its end
LoadCompletes(t) ==
    /\ tpc' = [tpc EXCEPT ![t] = "P134"]
    /\ loads' = [loads EXCEPT !.completed = @ + 1]
    /\ UNCHANGED tloc

\* lines 116-117 and 121-122: THRESHOLDS = np.load(thr_path), or None
LoadThresholds(t) ==
    /\ tpc[t] = "L116"
    /\ IF files.thr.k = "absent"
       THEN THRESHOLDS' = NoneThr /\ LoadCompletes(t)
       ELSE IF files.thr.k = "unreadable"
       THEN LoadRaises(t, "ValueError") /\ UNCHANGED <<THRESHOLDS, loads>>
       ELSE /\ THRESHOLDS' = Arr(files.thr.v)
            /\ tpc' = [tpc EXCEPT ![t] = "L118"]
            /\ UNCHANGED <<tloc, loads>>
    /\ UNCHANGED <<PIPE, LABELS, files>>
    /\ UNCHANGED <<cacheVars, proxyVars, dbVars>>

\* lines 118-120: a THRESHOLDS of another shape than (len(LABELS),) is dropped
CheckThresholds(t) ==
    /\ tpc[t] = "L118"
    /\ IF THRESHOLDS.k = "none"
       THEN LoadRaises(t, "AttributeError") /\ UNCHANGED <<THRESHOLDS, loads>>
       ELSE /\ THRESHOLDS' = IF Len(THRESHOLDS.v) # Len(LABELS) THEN NoneThr
                             ELSE THRESHOLDS
            /\ LoadCompletes(t)
    /\ UNCHANGED <<PIPE, LABELS, files>>
    /\ UNCHANGED <<cacheVars, proxyVars, dbVars>>

\* lines 134-136: the text is normalised; an empty text returns []
Normalize(t) ==
    /\ tpc[t] = "P134"
    /\ LET text == _normalize_text(DescOrEmpty(tloc[t].desc))
       IN  IF EmptyText(text)
           THEN /\ tpc' = [tpc EXCEPT ![t] = "done"]
                /\ tloc' = [tloc EXCEPT ![t] =
                              [@ EXCEPT !.text = text, !.outcome = Returned(<<>>)]]
           ELSE /\ tpc' = [tpc EXCEPT ![t] = "P138"]
                /\ tloc' = [tloc EXCEPT ![t] = [@ EXCEPT !.text = text]]
    /\ UNCHANGED <<PIPE, LABELS, THRESHOLDS, files, loads>>
    /\ UNCHANGED <<cacheVars, proxyVars, dbVars>>

\* the probabilities of line 139 for the decision scores sc
Probs(sc) == [j \in 1..Len(sc) |-> Sigmoid(sc[j])]

\* lines 138-146: the model scores the text (sc: its decision scores), the
\* probabilities are compared with the thresholds and the labels returned in
\* the order srt argsort gives
Score(t, sc, srt) ==
    /\ tpc[t] = "P138"
    /\ srt \in Orders(Probs(sc), THRESHOLDS, LABELS)
    /\ tloc' = [tloc EXCEPT ![t] =
                  [@ EXCEPT !.scored = TRUE, !.probs = Probs(sc),
                            !.usedThr = ThresholdsOr(THRESHOLDS, LABELS),
                            !.outcome = Select(Probs(sc), THRESHOLDS, LABELS, srt)]]
    /\ tpc' = [tpc EXCEPT ![t] = "done"]
    /\ UNCHANGED <<PIPE, LABELS, THRESHOLDS, files, loads>>
    /\ UNCHANGED <<cacheVars, proxyVars, dbVars>>

(***************************************************************************)
(* The chat proxy (src/tech_support/main.py): _fetch_token, _call_gigachat *)
(*                                                                         *)
(* The handlers are coroutines of one event loop: a call runs alone from   *)
(* one await to the next.  A POST and the reading of its answer are one    *)
(* await of the model; asyncio.sleep before a retry touches nothing shared *)
(* and is part of the step that handles the answer.  Time is in minutes.   *)
(* A token is named by the call that requested it and by the number of     *)
(* chat POSTs that call had issued when it requested it.                   *)
(***************************************************************************)
RETRIES == 2

\* the 60 seconds a cached token must still have
TokenSkew == 1

\* the 900 seconds a token lives when the answer names no expires_in
TokenDefaultLife == 15

MaxChats == 1

MaxElapsed == 1

Chats == 1..MaxChats

\* None of _token_value
NoToken == [by |-> 0, at |-> 0]

Http(st) == [kind |-> "HTTPException", status |-> st]

Body == [kind |-> "body", status |-> 200]

Other(k) == [kind |-> k, status |-> 0]

NoResult == Other("none")

\* a _call_gigachat call that has not started: its locals (attempt of the
\* chat loop, attempt of the token loop, where _fetch_token returns to, the
\* token) and its history (chat POSTs issued, the last of them answered 401
\* or 403, _fetch_token answered from the cache, how the call ended)
NoChat == [attempt |-> 0, tattempt |-> 0, ret |-> "start", token |-> NoToken,
           posts |-> 0, rejected |-> 0, hit |-> FALSE, result |-> NoResult]

\* expires_in of a token answer, in minutes; 0 when the answer names none
ExpiresIn == {0, 2}

\* what the token endpoint answers a POST with: a token, a 200 without
\* access_token, a 200 whose body is not JSON, a 200 whose expires_in is not
\* a number, a retryable status, another status, no answer
TokenOutcomes == {[kind |-> "ok", expires |-> e] : e \in ExpiresIn}
                 \cup {[kind |-> k, expires |-> 0] :
                         k \in {"noaccess", "badjson", "badexp",
                                "retry", "other", "neterr"}}

\* what the chat endpoint answers a POST with: a 200 with a JSON body, a 200
\* whose body is not JSON, 401 or 403, a retryable status, another status,
\* no answer
ChatOutcomes == {"ok", "badjson", "auth", "retry", "other", "neterr"}

ProxyIdle ==
    /\ _token_value = NoToken
    /\ _token_exp = 0
    /\ ctime = 0
    /\ creds = TRUE
    /\ cpc = [c \in Chats |-> "idle"]
    /\ cloc = [c \in Chats |-> NoChat]

CacheValidNoSkew(tv, te, t) == tv # NoToken /\ t < te

\* the test of _fetch_token on the cached token
CacheValid(tv, te, t) == tv # NoToken /\ t < te - TokenSkew

\* the call leaves _call_gigachat with res; its locals are gone
Leave(c, loc, res) ==
    /\ cpc' = [cpc EXCEPT ![c] = "done"]
    /\ cloc' = [cloc EXCEPT ![c] = [NoChat EXCEPT !.posts = loc.posts,
                                                  !.rejected = loc.rejected,
                                                  !.result = res]]

\* session.post(CHAT_URL) carrying the token tok
PostChat(c, loc, tok) ==
    /\ cpc' = [cpc EXCEPT ![c] = "chat"]
    /\ cloc' = [cloc EXCEPT ![c] = [loc EXCEPT !.token = tok, !.posts = @ + 1]]

\* session.post(TOKEN_URL)
PostToken(c, loc) ==
    /\ cpc' = [cpc EXCEPT ![c] = "token"]
    /\ cloc' = [cloc EXCEPT ![c] = loc]

\* `continue` in the loop of _call_gigachat
ContinueChat(c, loc, tok) ==
    IF loc.attempt < RETRIES
    THEN PostChat(c, [loc EXCEPT !.attempt = @ + 1], tok)
    ELSE Leave(c, loc, Http(502))

\* _fetch_token has returned tok to _call_gigachat
Resume(c, loc, tok) ==
    IF loc.ret = "start" THEN PostChat(c, loc, tok)
    ELSE ContinueChat(c, loc, tok)

\* _fetch_token from its first line to its first await, entered from r with
\* the globals tv, te
FetchToken(c, loc, tv, te, r) ==
    IF CacheValid(tv, te, ctime)
    THEN Resume(c, [loc EXCEPT !.ret = r, !.hit = TRUE], tv)
    ELSE IF ~creds THEN Leave(c, loc, Http(500))
    ELSE PostToken(c, [loc EXCEPT !.ret = r, !.tattempt = 0])

\* a request enters _call_gigachat
Start(c) ==
    /\ cpc[c] = "idle"
    /\ FetchToken(c, cloc[c], _token_value, _token_exp, "start")
    /\ UNCHANGED <<_token_value, _token_exp, ctime, creds>>
    /\ UNCHANGED <<cacheVars, artVars, dbVars>>

\* the token endpoint answers the POST of c
TokenAnswer(c, o) ==
    /\ cpc[c] = "token"
    /\ LET loc == cloc[c]
           access_token == [by |-> c, at |-> loc.posts]
       IN
       CASE o.kind = "ok" ->
              /\ _token_value' = access_token
              /\ _token_exp' = ctime + (IF o.expires # 0 THEN o.expires
                                        ELSE TokenDefaultLife)
              /\ Resume(c, loc, access_token)
         [] o.kind = "noaccess" ->
              /\ Leave(c, loc, Http(502))
              /\ UNCHANGED <<_token_value, _token_exp>>
         [] o.kind = "badjson" ->
              /\ Leave(c, loc, Other("JSONDecodeError"))
              /\ UNCHANGED <<_token_value, _token_exp>>
         [] o.kind = "badexp" ->
              /\ _token_value' = access_token
              /\ _token_exp' = _token_exp
              /\ Leave(c, loc, Other("ValueError"))
         [] o.kind \in {"retry", "neterr"} ->
              /\ IF loc.tattempt < RETRIES
                 THEN PostToken(c, [loc EXCEPT !.tattempt = @ + 1])
                 ELSE Leave(c, loc, Http(502))
              /\ UNCHANGED <<_token_value, _token_exp>>
         [] o.kind = "other" ->
              /\ Leave(c, loc, Http(400))
              /\ UNCHANGED <<_token_value, _token_exp>>
    /\ UNCHANGED <<ctime, creds>>
    /\ UNCHANGED <<cacheVars, artVars, dbVars>>

\* the chat endpoint answers the POST of c
ChatAnswer(c, o) ==
    /\ cpc[c] = "chat"
    /\ LET loc == cloc[c] IN
       CASE o = "auth" ->
              /\ _token_value' = NoToken
              /\ _token_exp' = 0
              /\ FetchToken(c, [loc EXCEPT !.rejected = loc.posts], NoToken, 0,
                            "reauth")
         [] o = "ok" ->
              /\ Leave(c, loc, Body)
              /\ UNCHANGED <<_token_value, _token_exp>>
         [] o = "badjson" ->
              /\ Leave(c, loc, Other("JSONDecodeError"))
              /\ UNCHANGED <<_token_value, _token_exp>>
         [] o \in {"retry", "neterr"} ->
              /\ ContinueChat(c, loc, loc.token)
              /\ UNCHANGED <<_token_value, _token_exp>>
         [] o = "other" ->
              /\ Leave(c, loc, Http(400))
              /\ UNCHANGED <<_token_value, _token_exp>>
    /\ UNCHANGED <<ctime, creds>>
    /\ UNCHANGED <<cacheVars, artVars, dbVars>>

\* the next request is handled
NextRequest(c) ==
    /\ cpc[c] = "done"
    /\ cpc' = [cpc EXCEPT ![c] = "idle"]
    /\ cloc' = [cloc EXCEPT ![c] = NoChat]
    /\ UNCHANGED <<_token_value, _token_exp, ctime, creds>>
    /\ UNCHANGED <<cacheVars, artVars, dbVars>>

\* time.time() moves on
Elapse ==
    /\ ctime < MaxElapsed
    /\ ctime' = ctime + 1
    /\ UNCHANGED <<_token_value, _token_exp, creds, cpc, cloc>>
    /\ UNCHANGED <<cacheVars, artVars, dbVars>>

(***************************************************************************)
(* The community routes (src/api/routes/community.py) over the tables of   *)
(* src/api/core/db/community_crud.py                                       *)
(*                                                                         *)
(* Each request has its own AsyncSession, so its own transaction of the    *)
(* PostgreSQL database (READ COMMITTED): a statement reads the rows that   *)
(* are committed when it runs, and the rows a request adds or deletes are  *)
(* seen by the others at its commit.  A request runs alone from one await  *)
(* of a statement to the next.  Every user id names a row of users.        *)
(***************************************************************************)
MaxUsers == 2

MaxComms == 1

MaxDbCalls == 4

Users == 1..MaxUsers

Communities == 1..MaxComms

\* the requests the server handles at a time
Sessions == {1, 2}

\* owner_id of a community id no row has
NoOwner == 0

Routes == {"join", "leave", "add_moderator", "remove_moderator"}

\* a session that handles no request
NoDbCall == [route |-> "none", user |-> 0, target |-> 0, community |-> 0,
             moderator |-> FALSE]

DbIdle ==
    /\ communities = [c \in Communities |-> NoOwner]
    /\ user_communities = {}
    /\ community_moderators = {}
    /\ dpc = [d \in Sessions |-> "idle"]
    /\ dloc = [d \in Sessions |-> NoDbCall]
    /\ started = 0

is_community_owner(c, u) == communities[c] = u

is_community_member(c, u) == <<u, c>> \in user_communities

is_community_moderator(c, u) == <<u, c>> \in community_moderators

\* the request of session d is answered
Respond(d) ==
    /\ dpc' = [dpc EXCEPT ![d] = "idle"]
    /\ dloc' = [dloc EXCEPT ![d] = NoDbCall]

\* the request of session d goes on to its next statement
Goto(d, p) ==
    /\ dpc' = [dpc EXCEPT ![d] = p]
    /\ dloc' = dloc

\* create_new_community: the community, the owner's membership and the
\* owner's moderator row are committed together under the next free id
create_community(u) ==
    /\ started < MaxDbCalls
    /\ \E c \in Communities :
          /\ communities[c] = NoOwner
          /\ \A b \in Communities : b < c => communities[b] # NoOwner
          /\ communities' = [communities EXCEPT ![c] = u]
          /\ user_communities' = user_communities \cup {<<u, c>>}
          /\ community_moderators' = community_moderators \cup {<<u, c>>}
    /\ started' = started + 1
    /\ UNCHANGED <<dpc, dloc>>
    /\ UNCHANGED <<cacheVars, artVars, proxyVars>>

\* a request for one of the other routes arrives: user u, community c and,
\* for the moderator routes, the user t of the request body or path
Arrive(d, r, u, t, c) ==
    /\ started < MaxDbCalls
    /\ dpc[d] = "idle"
    /\ dpc' = [dpc EXCEPT ![d] =
                 CASE r = "join" -> "join_exists"
                   [] r = "leave" -> "leave_owner"
                   [] r = "add_moderator" -> "add_member"
                   [] r = "remove_moderator" -> "remove_owner"]
    /\ dloc' = [dloc EXCEPT ![d] = [route |-> r, user |-> u,
                                    target |-> IF r \in {"join", "leave"}
                                               THEN u ELSE t,
                                    community |-> c, moderator |-> FALSE]]
    /\ started' = started + 1
    /\ UNCHANGED <<communities, user_communities, community_moderators>>
    /\ UNCHANGED <<cacheVars, artVars, proxyVars>>

\* join_existing_community / join_community, one statement a step
join_community(d) ==
    /\ dloc[d].route = "join"
    /\ LET u == dloc[d].user
           c == dloc[d].community
       IN
       CASE dpc[d] = "join_exists" ->
              /\ IF communities[c] = NoOwner THEN Respond(d)
                 ELSE Goto(d, "join_member")
              /\ UNCHANGED user_communities
         [] dpc[d] = "join_member" ->
              /\ IF is_community_member(c, u) THEN Respond(d)
                 ELSE Goto(d, "join_commit")
              /\ UNCHANGED user_communities
         [] dpc[d] = "join_commit" ->
              /\ user_communities' = user_communities \cup {<<u, c>>}
              /\ Respond(d)
    /\ UNCHANGED <<communities, community_moderators, started>>
    /\ UNCHANGED <<cacheVars, artVars, proxyVars>>

\* leave_existing_community / leave_community, one statement a step
leave_community(d) ==
    /\ dloc[d].route = "leave"
    /\ LET u == dloc[d].user
           c == dloc[d].community
       IN
       CASE dpc[d] = "leave_owner" ->
              /\ IF is_community_owner(c, u) THEN Respond(d)
                 ELSE Goto(d, "leave_member")
              /\ UNCHANGED <<user_communities, community_moderators>>
         [] dpc[d] = "leave_member" ->
              /\ IF ~is_community_member(c, u) THEN Respond(d)
                 ELSE Goto(d, "leave_moderator")
              /\ UNCHANGED <<user_communities, community_moderators>>
         [] dpc[d] = "leave_moderator" ->
              /\ dpc' = [dpc EXCEPT ![d] = "leave_commit"]
              /\ dloc' = [dloc EXCEPT ![d].moderator =
                                         is_community_moderator(c, u)]
              /\ UNCHANGED <<user_communities, community_moderators>>
         [] dpc[d] = "leave_commit" ->
              /\ user_communities' = user_communities \ {<<u, c>>}
              /\ community_moderators' =
                    IF dloc[d].moderator
                    THEN community_moderators \ {<<u, c>>}
                    ELSE community_moderators
              /\ Respond(d)
    /\ UNCHANGED <<communities, started>>
    /\ UNCHANGED <<cacheVars, artVars, proxyVars>>

\* add_community_moderator / add_moderator, one statement a step
add_moderator(d) ==
    /\ dloc[d].route = "add_moderator"
    /\ LET u == dloc[d].user
           t == dloc[d].target
           c == dloc[d].community
       IN
       CASE dpc[d] = "add_member" ->
              /\ IF ~is_community_member(c, t) THEN Respond(d)
                 ELSE Goto(d, "add_owner")
              /\ UNCHANGED community_moderators
         [] dpc[d] = "add_owner" ->
              /\ IF communities[c] # u THEN Respond(d)
                 ELSE Goto(d, "add_existing")
              /\ UNCHANGED community_moderators
         [] dpc[d] = "add_existing" ->
              /\ IF is_community_moderator(c, t) THEN Respond(d)
                 ELSE Goto(d, "add_commit")
              /\ UNCHANGED community_moderators
         [] dpc[d] = "add_commit" ->
              /\ community_moderators' = community_moderators \cup {<<t, c>>}
              /\ Respond(d)
    /\ UNCHANGED <<communities, user_communities, started>>
    /\ UNCHANGED <<cacheVars, artVars, proxyVars>>

\* remove_community_moderator / remove_moderator, one statement a step
remove_moderator(d) ==
    /\ dloc[d].route = "remove_moderator"
    /\ LET u == dloc[d].user
           t == dloc[d].target
           c == dloc[d].community
       IN
       CASE dpc[d] = "remove_owner" ->
              /\ IF communities[c] # u THEN Respond(d)
                 ELSE Goto(d, "remove_existing")
              /\ UNCHANGED community_moderators
         [] dpc[d] = "remove_existing" ->
              /\ IF ~is_community_moderator(c, t) THEN Respond(d)
                 ELSE Goto(d, "remove_commit")
              /\ UNCHANGED community_moderators
         [] dpc[d] = "remove_commit" ->
              /\ community_moderators' = community_moderators \ {<<t, c>>}
              /\ Respond(d)
    /\ UNCHANGED <<communities, user_communities, started>>
    /\ UNCHANGED <<cacheVars, artVars, proxyVars>>

(***************************************************************************)
(* Initial states                                                          *)
(***************************************************************************)
\* the artifact store before the first /predict request
ArtStart ==
    /\ PIPE = None
    /\ LABELS = <<>>
    /\ THRESHOLDS = NoneThr
    /\ tpc = [t \in Threads |-> "idle"]
    /\ tloc = [t \in Threads |-> NoCall]
    /\ loads = [invoked |-> 0, completed |-> 0]

ArtInit == ArtStart /\ files = GoodDirectory

CacheIdle ==
    /\ clock = StartTime
    /\ cache = [c \in Collections |-> EmptySlot]
    /\ ReqInit

InitArt ==
    /\ ArtStart
    /\ files \in Directories
    /\ CacheIdle
    /\ ProxyIdle
    /\ DbIdle

\* the decision values the model answers concurrent calls with
ArtScores == {0, 1}

NextArt ==
    \/ \E t \in Threads, d \in Descriptions : Predict(t, d)
    \/ \E t \in Threads : LoadCheck(t)
    \/ \E t \in Threads : LoadModel(t)
    \/ \E t \in Threads : LoadLabels(t)
    \/ \E t \in Threads : LoadThresholds(t)
    \/ \E t \in Threads : CheckThresholds(t)
    \/ \E t \in Threads : Normalize(t)
    \/ \E t \in Threads :
          /\ tpc[t] = "P138"
          /\ \E sc \in [1..NOut(files) -> ArtScores] :
                \E srt \in Orders(Probs(sc), THRESHOLDS, LABELS) : Score(t, sc, srt)

SpecArt == InitArt /\ [][NextArt]_vars

(***************************************************************************)
(* Concurrent recommendation requests over the catalog cache               *)
(***************************************************************************)
InitCache ==
    /\ CacheIdle
    /\ ArtInit
    /\ ProxyIdle
    /\ DbIdle

\* the request body the concurrent clients send
CacheReq == [skills |-> <<S_Python>>, limit |-> NoLimit]

\* the failures the concurrent requests meet: one that raises HTTPException
\* and one that raises another exception
CacheFailures == {f \in Failures : f.kind = "timeout" \/ f.status = 503}

NextCache ==
    \/ \E p \in Requests, c \in Collections : Call(p, c, CacheReq)
    \/ \E p \in Requests, n \in 0..MaxItems : PageList(p, n)
    \/ \E p \in Requests : PageNonList(p)
    \/ \E p \in Requests, f \in CacheFailures : PageFail(p, f)
    \/ Tick

SpecCache == InitCache /\ [][NextCache]_vars

(***************************************************************************)
(* Claims about the catalog cache (SpecCache)                              *)
(***************************************************************************)
Started == 1..Len(calls)

\* request p's fetch ends in this step, successfully / with an exception
Succeeds(p) == pc[p] = "fetch" /\ calls'[p].status = "ok"

Fails(p) == pc[p] = "fetch" /\ calls'[p].status = "err"

\* C1 as stated: starting from an empty or expired slot, any two get calls on
\* one collection whose start times differ by at most CACHE_TTL_SEC cause
\* exactly one _get_all fetch in total and return the same snapshot.
C1_AnyTwoCallsOneFetch ==
    \A i \in Started, j \in Started :
        ( /\ i < j
          /\ calls[i].c = calls[j].c
          /\ Stale(calls[i].start, calls[i].seen.ts)
          /\ calls[j].start - calls[i].start <= CACHE_TTL_SEC )
        => /\ calls[i].fetched /\ ~calls[j].fetched
           /\ (calls[i].status = "ok" /\ calls[j].status = "ok")
                  => calls[i].result = calls[j].result

\* C1 amended: starting from an empty or expired slot, when a get call that
\* overlaps no other get call on its collection has completed successfully,
\* every get call on that collection that starts at most CACHE_TTL_SEC after
\* its start does no fetch and returns the same snapshot: exactly one
\* _get_all fetch for the two calls.
C1_ReuseWithinTTL ==
    \A i \in Started, j \in Started :
        ( /\ i < j
          /\ calls[i].c = calls[j].c
          /\ Stale(calls[i].start, calls[i].seen.ts)
          /\ calls[i].alone
          /\ calls[i].status = "ok"
          /\ calls[j].start - calls[i].start <= CACHE_TTL_SEC )
        => /\ calls[i].fetched /\ ~calls[j].fetched
           /\ calls[j].status = "ok"
           /\ calls[j].result = calls[i].result

\* C1 witness: a second call exactly CACHE_TTL_SEC after a successful,
\* non-overlapped refresh that fetched a non-empty list
C1_Witness ==
    \E i \in Started, j \in Started :
        /\ i < j /\ calls[i].c = calls[j].c
        /\ calls[i].alone /\ calls[i].fetched /\ calls[i].status = "ok"
        /\ calls[i].result # <<>>
        /\ calls[j].start - calls[i].start = CACHE_TTL_SEC
        /\ ~calls[j].fetched

\* C2: a get call that starts with now - fetched_at > CACHE_TTL_SEC (and no
\* call that starts with now - fetched_at <= CACHE_TTL_SEC) starts one
\* _get_all fetch; when the fetch succeeds the slot holds the fetched list
\* and the call's now, which is newer than the fetched_at the call found
\* expired, and the call returns the fetched list.
C2_RefreshAfterExpiry ==
    /\ [](\A i \in Started :
            calls[i].fetched <=> calls[i].start - calls[i].seen.ts > CACHE_TTL_SEC)
    /\ [][\A p \in Requests :
            Succeeds(p) =>
                /\ cache'[coll[p]].items = calls'[p].got
                /\ cache'[coll[p]].ts = calls[p].start
                /\ cache'[coll[p]].ts > calls[p].seen.ts
                /\ calls'[p].result = calls'[p].got]_vars

\* C2 witness: a slot refreshed before has expired, and a call has replaced
\* its list by a different one
C2_Witness ==
    \E i \in Started :
        /\ calls[i].seen.ts > 0
        /\ calls[i].fetched /\ calls[i].status = "ok"
        /\ calls[i].got # calls[i].seen.items
        /\ cache[calls[i].c] = [ts |-> calls[i].start, items |-> calls[i].got]

\* C3 as stated: when the fetch of a get call fails, the slot's items and
\* timestamp are as they were before the call and the slot is still stale.
C3_FailedFetchSlotAsBefore ==
    [][\A p \in Requests :
            Fails(p) =>
                /\ cache'[coll[p]] = calls[p].seen
                /\ Stale(clock, cache'[coll[p]].ts)]_vars

\* C3 amended: when the fetch of a get call fails (non-200 page, unparseable
\* body, timeout), the failing call assigns neither items nor timestamp and
\* the handler's caller gets the error; if no other get call on the
\* collection overlapped the failing one, the slot is as it was before the
\* call and still stale, so that the next get call fetches again.
C3_FailedFetchAssignsNothing ==
    [][\A p \in Requests :
            Fails(p) =>
                /\ cache' = cache
                /\ calls'[p].result = <<>>
                /\ Response(p)' .status = 500
                /\ calls[p].alone =>
                       /\ cache'[coll[p]] = calls[p].seen
                       /\ Stale(clock, cache'[coll[p]].ts)]_vars

\* C3 witness: the refresh of a populated slot failed, and the slot still
\* holds the previous snapshot
C3_Witness ==
    \E i \in Started :
        /\ calls[i].status = "err" /\ calls[i].alone
        /\ calls[i].seen.items # <<>>
        /\ cache[calls[i].c] = calls[i].seen

\* C4: in every state each slot holds either the initial empty list with
\* timestamp 0 or the whole list one successful fetch returned together with
\* the start time of the call that made that fetch, and every list a get call
\* returned is the initial one or the whole list of one successful fetch.
C4_SlotIsOneFetch ==
    /\ \A c \in Collections :
          \/ cache[c] = EmptySlot
          \/ \E i \in Started :
                /\ calls[i].c = c /\ calls[i].fetched /\ calls[i].status = "ok"
                /\ cache[c] = [ts |-> calls[i].start, items |-> calls[i].got]
    /\ \A j \in Started :
          calls[j].status = "ok" =>
              \/ calls[j].result = EmptySlot.items
              \/ \E i \in Started :
                    /\ calls[i].c = calls[j].c /\ calls[i].fetched
                    /\ calls[i].status = "ok" /\ calls[j].result = calls[i].got

\* C4 witness: two calls found the slot expired, fetched at the same time and
\* got different lists
C4_Witness ==
    \E i \in Started, j \in Started :
        /\ i # j /\ calls[i].c = calls[j].c
        /\ calls[i].fetched /\ calls[j].fetched
        /\ ~calls[i].alone /\ ~calls[j].alone
        /\ calls[i].status = "ok" /\ calls[j].status = "ok"
        /\ calls[i].got # calls[j].got

\* C25 as stated: across every interleaving of concurrent get calls, the
\* timestamp of a slot never decreases, and a slot's items are never replaced
\* by the result of a fetch that started earlier than the fetch whose result
\* the slot holds.
C25_TimestampNeverDecreases ==
    [][/\ \A c \in Collections : cache'[c].ts >= cache[c].ts
       /\ \A p \in Requests :
             Succeeds(p) => calls[p].start >= cache[coll[p]].ts]_vars

(***************************************************************************)
(* One recommendation request at a time, over every small snapshot         *)
(***************************************************************************)
MaxSnap == 2

\* catalog items as the API may serve them
ItemPool ==
    {[id |-> 1, skills |-> <<S_Python, S_Cpp>>, mc |-> Num(10), lc |-> Absent],
     [id |-> 2, skills |-> <<S_cpp>>, mc |-> Num(5), lc |-> Num(7)],
     [id |-> 3, skills |-> <<S_Arduino>>, mc |-> Num(20), lc |-> Absent],
     [id |-> 4, skills |-> <<>>, mc |-> Absent, lc |-> Num(5)],
     [id |-> 5, skills |-> <<S_cpp>>, mc |-> Null, lc |-> Num(9)],
     [id |-> 6, skills |-> <<S_Python>>, mc |-> NonNumeric, lc |-> Absent]}

Snapshots == UNION {[1..n -> ItemPool] : n \in 0..MaxSnap}

RecoSkills == {<<>>, <<S_Python>>, <<S_cpp, S_Cpp>>, <<S_Arduino>>}

RecoLimits == {NoLimit, Limit(-1), Limit(0), Limit(1), Limit(2)}

RecoReqs == {[skills |-> sk, limit |-> l] : sk \in RecoSkills, l \in RecoLimits}

\* the communities slot holds a snapshot fetched at StartTime, the posts slot
\* is still empty
InitReco ==
    /\ clock = StartTime
    /\ \E snap \in Snapshots :
         cache = [c \in Collections |->
                    IF c = "communities" THEN [ts |-> StartTime, items |-> snap]
                    ELSE EmptySlot]
    /\ ReqInit
    /\ ArtInit
    /\ ProxyIdle
    /\ DbIdle

NextReco ==
    \/ \E c \in Collections, r \in RecoReqs : calls = <<>> /\ Call(1, c, r)
    \/ \E n \in 0..MaxItems : PageList(1, n)
    \/ PageNonList(1)
    \/ \E f \in Failures : PageFail(1, f)

SpecReco == InitReco /\ [][NextReco]_vars

\* one request to predict_communities, answered from the snapshot in the slot
NextRank == \E r \in RecoReqs : Call(1, "communities", r)

SpecRank == InitReco /\ [][NextRank]_vars

(***************************************************************************)
(* Claims about the recommendation endpoints (SpecReco)                    *)
(***************************************************************************)
\* the limit as the request states it: an absent limit counts as 50
StatedLimit(r) == IF r.limit.k = "none" THEN DEFAULT_LIMIT ELSE r.limit.v

\* the whole ranking of a snapshot for a skill list
Ranked(objs, skills) ==
    Recommend(objs, [skills |-> skills, limit |-> Limit(Len(objs) + 1)]).body

\* C5 as stated: for every limit k (0 and negative values included, an absent
\* limit counting as 50) and a snapshot of N items with a non-empty
\* vocabulary, the endpoint returns exactly min(max(1, k), N) entries, the
\* first ones of the ranked order.
C5_ReturnsMaxOneK ==
    \A i \in Started :
        LET objs == calls[i].result
            ans  == Response(i)
            want == Min(Max(1, StatedLimit(calls[i].req)), Len(objs))
        IN  (calls[i].status = "ok" /\ ans.status = 200 /\ _build_vocab(objs) # <<>>)
            => /\ Len(ans.body) = want
               /\ ans.body = Prefix(Ranked(objs, calls[i].req.skills), want)

\* C6: a request is answered 200 or 500 and nothing else.  A get call that
\* raised (a page answered with another status than 200, a body that is no
\* JSON, a timeout) and a ranking that raised give 500 with no list; a 200
\* comes only with a get call that returned, and carries the ranking of the
\* whole list that call returned, cut only by the limit.
C6_Only200Or500 ==
    \A i \in Started :
        LET objs == calls[i].result
            ans  == Response(i)
        IN  calls[i].status # "pending" =>
            /\ ans.status \in {200, 500}
            /\ calls[i].status = "err" => (ans.status = 500 /\ ans.body = <<>>)
            /\ (_build_vocab(objs) # <<>> /\ \E n \in 1..Len(objs) : ~Popularity(objs[n]).ok)
                  => (ans.status = 500 /\ ans.body = <<>>)
            /\ ans.status = 200 =>
                  /\ calls[i].status = "ok"
                  /\ ans.body = Prefix(Ranked(objs, calls[i].req.skills),
                                       TopK(calls[i].req.limit))
                  /\ \A n \in 1..Len(ans.body) :
                        \E m \in 1..Len(objs) : objs[m].id = ans.body[n].id

\* C6 witness: the catalog answered a page with 404 and the request was
\* answered 500
C6_Witness ==
    \E i \in Started :
        /\ calls[i].status = "err" /\ calls[i].raised = 404
        /\ Response(i).status = 500

\* the scores and popularities the ranking of a snapshot sorts by
SortKeys(objs, skills) ==
    LET vocab == _build_vocab(objs)
        mat   == _one_hot_matrix(objs, vocab)
    IN  [scores |-> _cosine_scores(_skills_to_vec(skills, vocab), mat.M),
         pop    |-> mat.pop]

\* the requests answered 200 with a list that is not empty
Ranking(i) ==
    /\ calls[i].status = "ok"
    /\ Response(i).status = 200
    /\ Response(i).body # <<>>

\* C13: the entries of a recommendation result are distinct items of the
\* snapshot, each with its score, in order of descending score; among entries
\* of equal score the more popular one comes first; entries equal in score and
\* popularity are in snapshot order.
C13_ScoreThenPopularityThenSnapshot ==
    \A i \in Started :
        Ranking(i) =>
            LET objs == calls[i].result
                body == Response(i).body
                ord  == RecoOrder(objs, calls[i].req)
                key  == SortKeys(objs, calls[i].req.skills)
            IN  /\ Len(body) = Len(ord)
                /\ \A n \in 1..Len(ord) :
                      /\ ord[n] \in 1..Len(objs)
                      /\ body[n].id = objs[ord[n]].id
                      /\ body[n].score = key.scores[ord[n]]
                /\ \A m, n \in 1..Len(ord) :
                      m < n =>
                          /\ ord[m] # ord[n]
                          /\ \/ ScoreGt(key.scores[ord[m]], key.scores[ord[n]])
                             \/ /\ ScoreEq(key.scores[ord[m]], key.scores[ord[n]])
                                /\ \/ key.pop[ord[m]] > key.pop[ord[n]]
                                   \/ /\ key.pop[ord[m]] = key.pop[ord[n]]
                                      /\ ord[m] < ord[n]

\* C13 witness: two items of equal non-zero score, the more popular one later
\* in the snapshot, are returned with the more popular one first
C13_Witness ==
    \E i \in Started :
        /\ Ranking(i)
        /\ LET ord == RecoOrder(calls[i].result, calls[i].req)
               key == SortKeys(calls[i].result, calls[i].req.skills)
           IN  /\ Len(ord) = 2
               /\ ord[1] > ord[2]
               /\ key.scores[ord[1]].m > 0
               /\ ScoreEq(key.scores[ord[1]], key.scores[ord[2]])
               /\ key.pop[ord[1]] > key.pop[ord[2]]

\* no canonical token of the skill list is in the vocabulary, and no hint
\* token of it finds "c++" there
QueryMisses(objs, skills) ==
    LET vocab == _build_vocab(objs)
    IN  \A tok \in Range(_norm_list(skills)) :
            /\ tok \notin Range(vocab)
            /\ tok \in QueryHints => T_cpp \notin Range(vocab)

\* C14: when the query skill list is empty or none of its tokens and hint
\* targets is in the (non-empty) vocabulary, every returned score is 0 and the
\* items are returned by descending popularity, items of equal popularity in
\* snapshot order.
C14_ZeroQueryByPopularity ==
    \A i \in Started :
        (Ranking(i) /\ QueryMisses(calls[i].result, calls[i].req.skills)) =>
            LET body == Response(i).body
                ord  == RecoOrder(calls[i].result, calls[i].req)
                pop  == SortKeys(calls[i].result, calls[i].req.skills).pop
            IN  /\ Len(body) = Len(ord)
                /\ \A n \in 1..Len(body) : body[n].score.m = 0
                /\ \A m, n \in 1..Len(ord) :
                      m < n => \/ pop[ord[m]] > pop[ord[n]]
                               \/ pop[ord[m]] = pop[ord[n]] /\ ord[m] < ord[n]

\* C14 witness: a query whose only token is not in the vocabulary gets two
\* items scored 0, the more popular one, second in the snapshot, first
C14_Witness ==
    \E i \in Started :
        /\ Ranking(i)
        /\ calls[i].req.skills # <<>>
        /\ QueryMisses(calls[i].result, calls[i].req.skills)
        /\ RecoOrder(calls[i].result, calls[i].req) = <<2, 1>>
        /\ Response(i).body[1].score.m = 0

\* C17: for every item of the snapshot, with the vocabulary built from the
\* snapshot, entry j of the item's one-hot row is 1 exactly when token j is
\* one of the item's canonical skill tokens, or token j is "c++" and the
\* item's tokens include "arduino", and 0 otherwise; the rows of the matrix
\* are these rows.
C17_RowMarksTokensAndHint ==
    \A i \in Started :
        calls[i].status = "ok" =>
            LET objs  == calls[i].result
                vocab == _build_vocab(objs)
                mat   == _one_hot_matrix(objs, vocab)
            IN  \A k \in 1..Len(objs) :
                    LET toks == Range(_norm_list(objs[k].skills))
                        row  == ItemRow(objs[k], vocab)
                    IN  /\ Len(row) = Len(vocab)
                        /\ \A j \in 1..Len(vocab) :
                              row[j] = IF \/ vocab[j] \in toks
                                          \/ vocab[j] = T_cpp /\ T_arduino \in toks
                                       THEN 1 ELSE 0
                        /\ mat.M # <<>> => mat.M[k] = row

\* C17 witness: an item whose only skill is "arduino", in a vocabulary holding
\* "arduino" and "c++", has both dimensions set
C17_Witness ==
    \E i \in Started :
        /\ calls[i].status = "ok"
        /\ LET objs  == calls[i].result
               vocab == _build_vocab(objs)
               mat   == _one_hot_matrix(objs, vocab)
           IN  /\ Range(vocab) = {T_arduino, T_cpp}
               /\ \E k \in 1..Len(objs) :
                     /\ _norm_list(objs[k].skills) = <<T_arduino>>
                     /\ mat.M[k][IndexOf(vocab, T_arduino)] = 1
                     /\ mat.M[k][IndexOf(vocab, T_cpp)] = 1

\* the popularity C20 states for an item
StatedPopularity(obj) ==
    LET x == IF obj.mc.k # "absent" THEN obj.mc
             ELSE IF obj.lc.k # "absent" THEN obj.lc ELSE Absent
    IN  IF x.k = "num" THEN x.v ELSE 0

\* C20 as stated: the popularity of every catalog item is its member_count
\* when that field is present, otherwise its like_count, and 0 when both are
\* absent or the value found is null or non-numeric; a null or non-numeric
\* popularity field never makes the recommendation request fail.
C20_PopularityNeverFails ==
    \A i \in Started :
        calls[i].status = "ok" =>
            LET objs == calls[i].result
                mat  == _one_hot_matrix(objs, _build_vocab(objs))
            IN  /\ Response(i).status = 200
                /\ ~mat.raised
                /\ mat.pop # <<>> =>
                      \A k \in 1..Len(objs) : mat.pop[k] = StatedPopularity(objs[k])

\* the canonical tokens of all items' skill lists, items in order, tokens
\* within an item in order
RECURSIVE AllTokens(_)
AllTokens(objs) ==
    IF objs = <<>> THEN <<>>
    ELSE _norm_list(objs[1].skills) \o AllTokens(Tail(objs))

\* C21: for the item sequence a request ranks, the keys of the vocabulary are
\* exactly the distinct canonical tokens of the items' skill lists, token j
\* (index j - 1, so the indices are 0..n-1 without gap or repeat) is the j-th
\* distinct token in order of first occurrence, and building the vocabulary
\* of the same sequence again gives the same mapping.
C21_VocabDistinctTokensInOrder ==
    \A i \in Started :
        calls[i].status = "ok" =>
            LET objs  == calls[i].result
                vocab == _build_vocab(objs)
                flat  == AllTokens(objs)
            IN  /\ Range(vocab) = Range(flat)
                /\ Len(vocab) = Cardinality(Range(flat))
                /\ \A m, n \in 1..Len(vocab) :
                      m < n => /\ vocab[m] # vocab[n]
                               /\ IndexOf(flat, vocab[m]) < IndexOf(flat, vocab[n])
                /\ \A j \in 1..Len(vocab) : IndexOf(vocab, vocab[j]) - 1 = j - 1
                /\ BuildVocabFrom(objs, <<>>) = vocab

\* C21 witness: two items share a token under different spellings and the
\* second adds no index ("Python", "C++" then "cpp")
C21_Witness ==
    \E i \in Started :
        /\ calls[i].status = "ok"
        /\ Len(calls[i].result) = 2
        /\ Len(AllTokens(calls[i].result)) = 3
        /\ _build_vocab(calls[i].result) = <<T_python, T_cpp>>

\* the dimensions set in a 0/1 vector
IndexSet(v) == {j \in 1..Len(v) : v[j] = 1}

\* C23 as stated: for the query vector with index set Q and an item row with
\* index set R, the score is 0 when Q or R is empty or they share no index,
\* lies in [0, 1], and equals 1 exactly when Q = R is not empty.
C23_CosineInUnitInterval ==
    \A i \in Started :
        Ranking(i) =>
            LET objs  == calls[i].result
                vocab == _build_vocab(objs)
                Q     == IndexSet(_skills_to_vec(calls[i].req.skills, vocab))
                key   == SortKeys(objs, calls[i].req.skills)
            IN  \A k \in 1..Len(objs) :
                    LET R == IndexSet(ItemRow(objs[k], vocab))
                    IN  /\ Q \cap R = {} => key.scores[k] = ZeroScore
                        /\ Q \cap R # {} => ScoreGt(key.scores[k], ZeroScore)
                        /\ ~ScoreGt(key.scores[k], One32)
                        /\ key.scores[k] = One32 <=> (Q = R /\ Q # {})

(***************************************************************************)
(* Claims about the artifact store (SpecArt)                               *)
(***************************************************************************)
\* the description of call t normalises to the empty text
EmptyInput(t) == _normalize_text(DescOrEmpty(tloc[t].desc)) = <<>>

Uniform(n) == [j \in 1..n |-> DEFAULT_THR]

\* the thresholds a completed load of the directory leaves in force
LoadedThresholds(dir) ==
    IF dir.thr.k = "array" /\ Len(dir.thr.v) = Len(dir.labels.v) THEN dir.thr.v
    ELSE Uniform(Len(dir.labels.v))

\* C7 as stated: a predict_labels call whose description is None, not a
\* string or normalises to the empty text returns the empty list and never
\* invokes the model's decision function.
C7_EmptyTextReturnsEmptyList ==
    \A t \in Threads :
        tpc[t] = "done" /\ EmptyInput(t) =>
            tloc[t].outcome = Returned(<<>>) /\ ~tloc[t].scored

\* C7 amended: a predict_labels call whose description is None, not a string
\* or normalises to the empty text never invokes the decision function; it
\* returns the empty list unless the load_artifacts call it made first raised,
\* and then that exception is its outcome.
C7_EmptyTextNeverScored ==
    \A t \in Threads :
        EmptyInput(t) =>
            /\ ~tloc[t].scored
            /\ tpc[t] = "done" =>
                  IF tloc[t].loadFailed THEN tloc[t].outcome.k = "raise"
                  ELSE tloc[t].outcome = Returned(<<>>)

\* C7 witness: a call with a blank description loaded the artifacts itself and
\* returned the empty list without scoring
C7_Witness ==
    \E t \in Threads :
        /\ tpc[t] = "done"
        /\ tloc[t].desc = <<" ">>
        /\ tloc[t].loadsInvoked = 1
        /\ ~tloc[t].loadFailed
        /\ tloc[t].outcome = Returned(<<>>)
        /\ ~tloc[t].scored

\* C8 as stated: the first predict_labels call invokes load_artifacts exactly
\* once, and a call that starts after a load_artifacts has completed
\* successfully does not invoke it again.
C8_LoadedOnce ==
    \A t \in Threads :
        tpc[t] # "idle" =>
            /\ t = 1 => tloc[t].loadsInvoked = 1
            /\ tloc[t].loadedAtStart => tloc[t].loadsInvoked = 0

\* C9 as stated, taken where a predict_labels call reads the store: when a
\* call is about to score, THRESHOLDS is None or has one entry per label, and
\* with a thresholds file of another length than the label list every scoring
\* compared the probabilities with the uniform DEFAULT_THR.
C9_ThresholdsNoneOrPerLabel ==
    \A t \in Threads :
        /\ tpc[t] = "P138" =>
              THRESHOLDS.k = "none" \/ Len(THRESHOLDS.v) = Len(LABELS)
        /\ /\ tloc[t].scored
           /\ files.thr.k = "array"
           /\ Len(files.thr.v) # Len(files.labels.v)
           => tloc[t].usedThr = Uniform(Len(files.labels.v))

\* C10 as stated: under every interleaving of predict_labels calls no call
\* scores against a partly assigned store (each scoring uses the thresholds
\* the completed load leaves in force), and once a load_artifacts has
\* completed PIPE, LABELS and THRESHOLDS are not modified again.
C10_NoPartialStoreNoReassign ==
    /\ [](\A t \in Threads :
             tloc[t].scored => tloc[t].usedThr = LoadedThresholds(files))
    /\ [][loads.completed > 0 => UNCHANGED <<PIPE, LABELS, THRESHOLDS>>]_vars

\* C27 as stated: a load_artifacts that raises leaves PIPE, LABELS and
\* THRESHOLDS as they were before the call; so while every load_artifacts
\* invoked so far has raised, the store is as the module created it.
C27_FailedLoadKeepsStore ==
    (\A t \in Threads : tloc[t].loadsInvoked > 0 => tloc[t].loadFailed)
        => /\ PIPE = None
           /\ LABELS = <<>>
           /\ THRESHOLDS = NoneThr

(***************************************************************************)
(* predict_labels over a loaded store: every small label list, every       *)
(* thresholds array of its length, every vector of decision scores         *)
(***************************************************************************)
MaxSel == 3

\* thresholds a thresholds.npy may hold
ThrVals == {500, 731}

\* directories whose labels.json and thresholds.npy (if any) agree in length
SelDirectories ==
    UNION {{[model |-> "ok",
             labels |-> [k |-> "list", v |-> [j \in 1..n |-> LabelAt(j)]],
             thr |-> th] :
              th \in {[k |-> "absent", v |-> <<>>]}
                     \cup {[k |-> "array", v |-> v] : v \in [1..n -> ThrVals]}} :
           n \in 1..MaxSel}

\* the store after load_artifacts has run to its end on the directory
InitSelect ==
    /\ files \in SelDirectories
    /\ PIPE = "pipe"
    /\ LABELS = files.labels.v
    /\ THRESHOLDS = IF files.thr.k = "array" THEN Arr(files.thr.v) ELSE NoneThr
    /\ tpc = [t \in Threads |-> "idle"]
    /\ tloc = [t \in Threads |-> NoCall]
    /\ loads = [invoked |-> 1, completed |-> 1]
    /\ CacheIdle
    /\ ProxyIdle
    /\ DbIdle

NextSelect ==
    \/ \E d \in Descriptions : Predict(1, d)
    \/ Normalize(1)
    \/ \E sc \in [1..Len(LABELS) -> Scores] :
          \E srt \in Orders(Probs(sc), THRESHOLDS, LABELS) : Score(1, sc, srt)

SpecSelect == InitSelect /\ [][NextSelect]_vars

(***************************************************************************)
(* Claims about the selection of labels (SpecSelect)                       *)
(***************************************************************************)
\* C11: a predict_labels call on a non-empty text returns exactly the labels
\* whose probability is at least their threshold (the thresholds file's entry
\* for the label, DEFAULT_THR without a file): a label at its threshold is in,
\* a label below it is out, whatever the other labels' probabilities, and no
\* label is returned twice.
C11_SelectedIffAtLeastThreshold ==
    \A t \in Threads :
        tloc[t].scored =>
            LET out == tloc[t].outcome
                thr == LoadedThresholds(files)
            IN  /\ out.k = "ok"
                /\ \A i \in 1..Len(LABELS) :
                      LABELS[i] \in Range(out.labels) <=> tloc[t].probs[i] >= thr[i]
                /\ Len(out.labels) = Cardinality(Range(out.labels))

\* C11 witness: of three labels scored, one lies at its threshold and is
\* returned, one lies below its threshold and is not
C11_Witness ==
    \E t \in Threads :
        /\ tloc[t].scored
        /\ Len(LABELS) = 3
        /\ \E i, j \in 1..3 :
              /\ tloc[t].probs[i] = LoadedThresholds(files)[i]
              /\ LABELS[i] \in Range(tloc[t].outcome.labels)
              /\ tloc[t].probs[j] < LoadedThresholds(files)[j]
              /\ LABELS[j] \notin Range(tloc[t].outcome.labels)

\* C12 as stated: the returned labels are in order of descending probability,
\* and two returned labels of equal probability are in the order of the label
\* list.
C12_DescendingTiesInLabelOrder ==
    \A t \in Threads :
        tloc[t].scored /\ tloc[t].outcome.k = "ok" =>
            LET ls == tloc[t].outcome.labels
                at(n) == IndexOf(LABELS, ls[n])
            IN  \A m, n \in 1..Len(ls) :
                    m < n =>
                        \/ tloc[t].probs[at(m)] > tloc[t].probs[at(n)]
                        \/ /\ tloc[t].probs[at(m)] = tloc[t].probs[at(n)]
                           /\ at(m) < at(n)

(***************************************************************************)
(* predict_labels over a loaded store, for every short description         *)
(***************************************************************************)
MaxLen == 3

\* code points a description is made of: a space, a Latin letter, U+0435,
\* U+0451 and the combining diaeresis U+0308
TextChars == {" ", "a", "cy_ie", "cy_yo", "U0308"}

Texts == UNION {[1..n -> TextChars] : n \in 0..MaxLen}

InitText ==
    /\ files = GoodDirectory
    /\ PIPE = "pipe"
    /\ LABELS = files.labels.v
    /\ THRESHOLDS = Arr(files.thr.v)
    /\ tpc = [t \in Threads |-> "idle"]
    /\ tloc = [t \in Threads |-> NoCall]
    /\ loads = [invoked |-> 1, completed |-> 1]
    /\ CacheIdle
    /\ ProxyIdle
    /\ DbIdle

NextText ==
    \/ \E d \in Texts \cup {NoneDesc, NotAString} : Predict(1, d)
    \/ Normalize(1)
    \/ \E sc \in [1..Len(LABELS) -> Scores] :
          \E srt \in Orders(Probs(sc), THRESHOLDS, LABELS) : Score(1, sc, srt)

SpecText == InitText /\ [][NextText]_vars

(***************************************************************************)
(* Claims about the text normaliser (SpecText)                             *)
(***************************************************************************)
\* the calls that have normalised their description
Normalized == {t \in Threads : tpc[t] \in {"P138", "done"}}

\* C15 as stated: normalising the normalised text of any description gives
\* that text again, and a description that is not a string or is empty gives
\* the empty text.
C15_NormalizeIdempotent ==
    \A t \in Normalized :
        /\ _normalize_text(tloc[t].text) = tloc[t].text
        /\ tloc[t].desc \in {NotAString, <<>>} => tloc[t].text = <<>>

(***************************************************************************)
(* A recommendation request over a one-item snapshot, for every short      *)
(* skill list the catalog may serve with the item                          *)
(***************************************************************************)
MaxSkills == 3

S_CPlusPlus == <<"C"," ","p","l","u","s"," ","P","l","u","s">>

S_JS == <<"J","S">>

\* entries of a skill list: spellings of tokens, a blank string, a value that
\* is not a string
Spellings == {S_Cpp, S_cpp, S_CPlusPlus, S_Python, S_JS, <<" ">>, NotAString}

SkillLists == UNION {[1..n -> Spellings] : n \in 0..MaxSkills}

TokenReqs == {[skills |-> sk, limit |-> NoLimit] : sk \in {<<S_cpp>>, <<S_Python, S_JS>>}}

InitTokens ==
    /\ clock = StartTime
    /\ \E sk \in SkillLists :
         cache = [c \in Collections |->
                    IF c = "communities"
                    THEN [ts |-> StartTime,
                          items |-> <<[id |-> 1, skills |-> sk, mc |-> Num(1), lc |-> Absent]>>]
                    ELSE EmptySlot]
    /\ ReqInit
    /\ ArtInit
    /\ ProxyIdle
    /\ DbIdle

NextTokens == \E r \in TokenReqs : Call(1, "communities", r)

SpecTokens == InitTokens /\ [][NextTokens]_vars

(***************************************************************************)
(* Claims about _norm_list (SpecTokens)                                    *)
(***************************************************************************)
\* the skill lists _build_vocab and _one_hot_matrix have normalised for the
\* requests answered so far
NormalisedLists ==
    UNION {{calls[i].result[k].skills : k \in 1..Len(calls[i].result)} :
             i \in {j \in Started : calls[j].status = "ok"}}

\* C16: for every skill list, _norm_list returns the canonical tokens of the
\* entries in order of first occurrence, without the empty string and without
\* duplicates; "C++", "cpp" and "c plus plus" all have the canonical token
\* "c++", and ["C++","cpp","Python"] gives ["c++","python"].
C16_CanonicalFirstOccurrence ==
    \A xs \in NormalisedLists :
        LET out   == _norm_list(xs)
            canon == [n \in 1..Len(xs) |-> _norm_token(xs[n])]
        IN  /\ Range(out) = Range(canon) \ {<<>>}
            /\ \A m, n \in 1..Len(out) :
                  m < n => /\ out[m] # out[n]
                           /\ IndexOf(canon, out[m]) < IndexOf(canon, out[n])
            /\ \A n \in 1..Len(xs) :
                  xs[n] \in {S_Cpp, S_cpp, S_CPlusPlus} => canon[n] = T_cpp
            /\ xs = <<S_Cpp, S_cpp, S_Python>> => out = <<T_cpp, T_python>>

\* C16 witness: the list ["C++","cpp","Python"] has been normalised
C16_Witness ==
    /\ <<S_Cpp, S_cpp, S_Python>> \in NormalisedLists
    /\ _build_vocab(calls[1].result) = <<T_cpp, T_python>>

(***************************************************************************)
(* Paginated fetches over catalogs of several pages                        *)
(***************************************************************************)
MaxCatalog == 5

NextFetch ==
    \/ \E p \in Requests, c \in Collections : Call(p, c, CacheReq)
    \/ \E p \in Requests, n \in 0..MaxCatalog : PageList(p, n)
    \/ \E p \in Requests : PageNonList(p)
    \/ \E p \in Requests, f \in Failures : PageFail(p, f)

SpecFetch == InitCache /\ [][NextFetch]_vars

(***************************************************************************)
(* Claims about _get_all (SpecFetch)                                       *)
(***************************************************************************)
\* the first n items of the upstream collection c, in catalog order
FirstItems(c, n) == [k \in 1..n |-> ItemAt(c, k)]

\* request p processes a page response in this step
PageStep(p) == pc[p] = "fetch" /\ (pc'[p] # "fetch" \/ skip'[p] # skip[p])

\* C18: while every page request is answered 200 with a JSON body, the page
\* requests of one _get_all call use skip = 0, limit, 2*limit, ..., a page of
\* limit items is appended to the items received so far and followed by the
\* next request, and the first shorter page is appended and ends the fetch,
\* which returns the pages received in request order; a body that is no list
\* ends the fetch too, without error, and adds nothing.
C18_PagesConcatenatedUntilShort ==
    /\ [](\A i \in Started :
            /\ \A k \in 1..Len(calls[i].offsets) :
                  calls[i].offsets[k] = (k - 1) * MP_API_PAGE_LIMIT
            /\ (calls[i].fetched /\ calls[i].status = "pending") =>
                  /\ skip[i] = calls[i].offsets[Len(calls[i].offsets)]
                  /\ acc[i] = FirstItems(calls[i].c, skip[i])
            /\ (calls[i].fetched /\ calls[i].status = "ok") =>
                  /\ calls[i].got = FirstItems(calls[i].c, Len(calls[i].got))
                  /\ Len(calls[i].got) < Len(calls[i].offsets) * MP_API_PAGE_LIMIT
                  /\ Len(calls[i].got) >= (Len(calls[i].offsets) - 1) * MP_API_PAGE_LIMIT)
    /\ [][\A p \in Requests :
            (PageStep(p) /\ ~Fails(p)) =>
                \/ /\ Succeeds(p)
                   /\ calls'[p].got = acc[p]
                   /\ calls'[p].offsets = calls[p].offsets
                \/ \E n \in 0..MaxCatalog :
                      LET page == PageOf(coll[p], n, skip[p], MP_API_PAGE_LIMIT)
                      IN  IF Len(page) < MP_API_PAGE_LIMIT
                          THEN /\ Succeeds(p)
                               /\ calls'[p].got = acc[p] \o page
                               /\ calls'[p].offsets = calls[p].offsets
                          ELSE /\ pc'[p] = "fetch"
                               /\ acc'[p] = acc[p] \o page
                               /\ skip'[p] = skip[p] + MP_API_PAGE_LIMIT
                               /\ calls'[p].offsets = Append(calls[p].offsets, skip'[p])]_vars

\* C18 witness: a fetch of three page requests has returned two full pages
\* followed by a shorter page that is not empty
C18_Witness ==
    \E i \in Started :
        /\ calls[i].status = "ok"
        /\ calls[i].offsets = <<0, MP_API_PAGE_LIMIT, 2 * MP_API_PAGE_LIMIT>>
        /\ Len(calls[i].got) = 2 * MP_API_PAGE_LIMIT + 1
        /\ calls[i].got[Len(calls[i].got)].id # calls[i].got[1].id

\* C19: one _get_all call has one page request outstanding at a time: a
\* request is issued when the call starts and then only by the step that
\* processed the previous full page, each at a new offset.  The first page
\* request that fails aborts the fetch: for a non-200 response the error is an
\* HTTPException with that response's status, for a body that is no JSON one
\* with status 500; the call issues no page request afterwards and returns
\* none of the items it had received.
C19_SequentialAbortOnFailure ==
    /\ [](\A i \in Started :
            /\ \A m, n \in 1..Len(calls[i].offsets) :
                  m < n => calls[i].offsets[m] < calls[i].offsets[n]
            /\ calls[i].status = "err" =>
                  /\ pc[i] = "done"
                  /\ calls[i].got = <<>> /\ calls[i].result = <<>>
                  /\ calls[i].failed.kind = "status" =>
                        calls[i].raised = calls[i].failed.status
                  /\ calls[i].failed.kind = "badjson" => calls[i].raised = 500)
    /\ [][\A p \in Requests :
            /\ (p \in Started /\ calls'[p].offsets # calls[p].offsets) =>
                  /\ pc[p] = "fetch" /\ pc'[p] = "fetch"
                  /\ Len(acc'[p]) = Len(acc[p]) + MP_API_PAGE_LIMIT
                  /\ calls'[p].offsets = Append(calls[p].offsets, skip'[p])
            /\ (p \notin Started /\ p \in 1..Len(calls')) =>
                  calls'[p].offsets = IF calls'[p].fetched THEN <<0>> ELSE <<>>
            /\ Fails(p) =>
                  /\ calls'[p].failed \in Failures
                  /\ calls'[p].offsets = calls[p].offsets
                  /\ pc'[p] = "done"
            /\ (p \in Started /\ calls[p].status = "err") => calls'[p] = calls[p]]_vars

\* C19 witness: the second page request of a fetch was answered 404 after a
\* full first page; the fetch raised 404 and returned nothing
C19_Witness ==
    \E i \in Started :
        /\ calls[i].status = "err"
        /\ calls[i].offsets = <<0, MP_API_PAGE_LIMIT>>
        /\ calls[i].failed = [kind |-> "status", status |-> 404]
        /\ calls[i].raised = 404
        /\ calls[i].got = <<>>

(***************************************************************************)
(* One recommendation request, for every short query over hinting skills   *)
(***************************************************************************)
MaxQuery == 1

S_Codeforces == <<"C","o","d","e","f","o","r","c","e","s">>

QuerySpellings == {S_Python, S_cpp, S_Arduino, S_Codeforces, T_olymp}

QueryReqs ==
    {[skills |-> sk, limit |-> NoLimit] :
        sk \in UNION {[1..n -> QuerySpellings] : n \in 0..MaxQuery}}

NextQuery == \E r \in QueryReqs : Call(1, "communities", r)

SpecQuery == InitReco /\ [][NextQuery]_vars

(***************************************************************************)
(* Claims about the query vector (SpecQuery)                               *)
(***************************************************************************)
\* C22: for the skill list S of a request and the vocabulary V of the
\* snapshot, entry j of the query vector is 1 exactly when entry j of the row
\* _one_hot_matrix builds for an item with skills S is 1, or token j is "c++"
\* and S has the token "olimpiadnaya informatika" or "codeforces"; so every
\* hint acts whenever "c++" is in V, whether or not its trigger is in V.
C22_QueryIsItemRowPlusHints ==
    \A i \in Started :
        calls[i].status = "ok" =>
            LET S     == calls[i].req.skills
                V     == _build_vocab(calls[i].result)
                toks  == Range(_norm_list(S))
                q     == _skills_to_vec(S, V)
                row   == ItemRow([id |-> 0, skills |-> S, mc |-> Absent, lc |-> Absent], V)
            IN  /\ Len(q) = Len(V)
                /\ \A j \in 1..Len(V) :
                      q[j] = IF \/ row[j] = 1
                                \/ V[j] = T_cpp /\ (T_olymp \in toks \/ T_cf \in toks)
                             THEN 1 ELSE 0
                /\ (T_cpp \in Range(V) /\ toks \cap {T_arduino, T_olymp, T_cf} # {})
                      => q[IndexOf(V, T_cpp)] = 1

\* C22 witness: a query of "codeforces" alone, over a vocabulary with "c++"
\* and without "codeforces", was answered with a list: the query vector has
\* the "c++" dimension set and the item row for the same list has none
C22_Witness ==
    \E i \in Started :
        /\ calls[i].status = "ok" /\ Response(i).status = 200 /\ Response(i).body # <<>>
        /\ calls[i].req.skills = <<S_Codeforces>>
        /\ LET V == _build_vocab(calls[i].result)
           IN  /\ T_cpp \in Range(V) /\ T_cf \notin Range(V)
               /\ _skills_to_vec(calls[i].req.skills, V)[IndexOf(V, T_cpp)] = 1
               /\ \A j \in 1..Len(V) :
                     ItemRow([id |-> 0, skills |-> calls[i].req.skills,
                              mc |-> Absent, lc |-> Absent], V)[j] = 0

(***************************************************************************)
(* One recommendation request over snapshots of items with few or no       *)
(* usable skills                                                           *)
(***************************************************************************)
MaxBare == 2

\* items without skills, with skills that normalise to nothing, and with one
\* skill; each with a numeric and with a non-numeric member_count
BareItems ==
    {[id |-> 7, skills |-> sk, mc |-> mc, lc |-> Absent] :
        sk \in {<<>>, <<<<" ">>, NotAString>>, <<S_cpp>>}, mc \in {Num(1), NonNumeric}}

InitBare ==
    /\ clock = StartTime
    /\ \E snap \in UNION {[1..n -> BareItems] : n \in 0..MaxBare} :
         cache = [c \in Collections |->
                    IF c = "communities" THEN [ts |-> StartTime, items |-> snap]
                    ELSE EmptySlot]
    /\ ReqInit
    /\ ArtInit
    /\ ProxyIdle
    /\ DbIdle

SpecBare == InitBare /\ [][NextRank]_vars

(***************************************************************************)
(* Claims about snapshots without vocabulary (SpecBare)                    *)
(***************************************************************************)
\* C24: when the snapshot a request ranks has no items, or none of its items
\* has a non-empty canonical skill token, the request is answered 200 with an
\* empty list, whatever its skill list and limit and whatever the items'
\* popularity fields hold.
C24_EmptyVocabularyEmptyList ==
    \A i \in Started :
        (calls[i].status = "ok" /\ _build_vocab(calls[i].result) = <<>>)
            => Response(i) = [status |-> 200, body |-> <<>>]

\* C24 witness: a request with skills and limit 1 over a snapshot whose only
\* item has blank and non-string skills and a non-numeric member_count was
\* answered 200 with an empty list
C24_Witness ==
    \E i \in Started :
        /\ calls[i].status = "ok"
        /\ calls[i].req.skills # <<>> /\ calls[i].req.limit = Limit(1)
        /\ Len(calls[i].result) = 1
        /\ calls[i].result[1].skills # <<>>
        /\ calls[i].result[1].mc = NonNumeric
        /\ _build_vocab(calls[i].result) = <<>>
        /\ Response(i) = [status |-> 200, body |-> <<>>]

(***************************************************************************)
(* Paginated fetches from an upstream that holds a fixed number of items   *)
(* per collection and answers every page request with the right slice      *)
(***************************************************************************)
InitCatalog ==
    /\ clock = StartTime
    /\ cache = [c \in Collections |-> EmptySlot]
    /\ ReqIdle
    /\ catalog \in [Collections -> 0..MaxCatalog]
    /\ ArtInit
    /\ ProxyIdle
    /\ DbIdle

\* the upstream answers the page request of p
Answer(p) == PageList(p, catalog[coll[p]])

NextCatalog ==
    \/ \E p \in Requests, c \in Collections : Call(p, c, CacheReq)
    \/ \E p \in Requests : Answer(p)

\* every page request is answered
SpecCatalog ==
    InitCatalog /\ [][NextCatalog]_vars /\ \A p \in Requests : WF_vars(Answer(p))

(***************************************************************************)
(* Claims about _get_all over a fixed catalog (SpecCatalog)                *)
(***************************************************************************)
\* floor(N / page_limit) + 1
PagesFor(n) == n \div MP_API_PAGE_LIMIT + 1

\* C26: over a catalog of N items that answers every page request with 200
\* and the right slice, a fetch never issues more than
\* floor(N / page_limit) + 1 page requests, every fetch ends, and a fetch that
\* has ended has issued exactly that many requests and returned the N items,
\* each once, in catalog order.
C26_FetchEndsAfterAllPages ==
    /\ [](\A i \in Started :
            LET n == catalog[calls[i].c] IN
            calls[i].fetched =>
                /\ Len(calls[i].offsets) <= PagesFor(n)
                /\ calls[i].status # "err"
                /\ calls[i].status = "ok" =>
                      /\ Len(calls[i].offsets) = PagesFor(n)
                      /\ calls[i].got = FirstItems(calls[i].c, n)
                      /\ \A j, k \in 1..n :
                            j < k => calls[i].got[j].id # calls[i].got[k].id)
    /\ \A p \in Requests : (pc[p] = "fetch") ~> (pc[p] = "done")

\* C26 witness: a fetch over a catalog of two full pages has ended after three
\* page requests, the last one answered with an empty page
C26_Witness ==
    \E i \in Started :
        /\ calls[i].fetched /\ calls[i].status = "ok"
        /\ catalog[calls[i].c] = 2 * MP_API_PAGE_LIMIT
        /\ Len(calls[i].offsets) = 3
        /\ Len(calls[i].got) = 2 * MP_API_PAGE_LIMIT

(***************************************************************************)
(* Concurrent calls of the chat proxy                                      *)
(***************************************************************************)
InitChat ==
    /\ _token_value = NoToken
    /\ _token_exp = 0
    /\ ctime = 0
    /\ creds \in BOOLEAN
    /\ cpc = [c \in Chats |-> "idle"]
    /\ cloc = [c \in Chats |-> NoChat]
    /\ DbIdle
    /\ CacheIdle
    /\ ArtInit

NextChat ==
    \/ \E c \in Chats : Start(c)
    \/ \E c \in Chats, o \in TokenOutcomes : TokenAnswer(c, o)
    \/ \E c \in Chats, o \in ChatOutcomes : ChatAnswer(c, o)
    \/ \E c \in Chats : NextRequest(c)
    \/ Elapse

SpecChat == InitChat /\ [][NextChat]_vars

\* C28: a _call_gigachat call issues at most RETRIES + 1 POSTs to the chat
\* endpoint, one for each attempt of its loop also when the answer is 401 or
\* 403, and it ends by returning the body of a 200 answer or by raising an
\* HTTPException
C28_BoundedPostsBodyOrHttp ==
    \A c \in Chats :
        /\ cloc[c].posts <= RETRIES + 1
        /\ cpc[c] = "chat" => cloc[c].posts = cloc[c].attempt + 1
        /\ cpc[c] = "done" => cloc[c].result.kind \in {"body", "HTTPException"}

\* C29: _fetch_token returns the cached token without a token request
\* exactly when a token is cached and now < _token_exp - 60 s; when a chat
\* POST is answered 401 or 403 the cached token is cleared and the cache is
\* not used, and the next chat POST of the call carries the token of a
\* token request the call issued after that answer
C29_CachedTokenAndReauth ==
    /\ [][\A c \in Chats :
            /\ (cpc[c] = "idle" /\ cpc'[c] # "idle")
                 => ((cpc'[c] = "chat" /\ cloc'[c].token = _token_value)
                       <=> (/\ _token_value # NoToken
                            /\ ctime < _token_exp - TokenSkew))
            /\ (cpc[c] = "chat" /\ cloc'[c].rejected # cloc[c].rejected)
                 => /\ _token_value' = NoToken
                    /\ cpc'[c] \in {"token", "done"}]_vars
    /\ [](\A c \in Chats :
            (cpc[c] = "chat" /\ cloc[c].rejected = cloc[c].posts - 1
                             /\ cloc[c].rejected > 0)
              => cloc[c].token = [by |-> c, at |-> cloc[c].rejected])

\* a call that found the token in the cache, was answered 401 or 403 and has
\* issued its next chat POST
C29_Witness ==
    \E c \in Chats :
        /\ cpc[c] = "chat"
        /\ cloc[c].hit
        /\ cloc[c].rejected > 0
        /\ cloc[c].rejected = cloc[c].posts - 1

(***************************************************************************)
(* Overlapping requests to the community routes                            *)
(***************************************************************************)
InitDb ==
    /\ DbIdle
    /\ ProxyIdle
    /\ CacheIdle
    /\ ArtInit

NextDb ==
    \/ \E u \in Users : create_community(u)
    \/ \E d \in Sessions, r \in Routes, u \in Users, t \in Users,
          c \in Communities : Arrive(d, r, u, t, c)
    \/ \E d \in Sessions : join_community(d)
    \/ \E d \in Sessions : leave_community(d)
    \/ \E d \in Sessions : add_moderator(d)
    \/ \E d \in Sessions : remove_moderator(d)

SpecDb == InitDb /\ [][NextDb]_vars

\* C30: in every reachable state the owner of a community and each of its
\* moderators have a membership row for it
C30_ModeratorsAndOwnerAreMembers ==
    \A c \in Communities, u \in Users :
        (is_community_owner(c, u) \/ is_community_moderator(c, u))
            => is_community_member(c, u)


====
